---- MODULE Spec2Model ----
(***************************************************************************)
(* PremiumMeter: the scraper scheduler (services/scheduler.py), the job    *)
(* wrapper and the collection run it drives (services/scraper.py), the     *)
(* price source router (services/stock_price_service.py), the scheduler    *)
(* configuration endpoint and the daily query counter, the premium query   *)
(* service (services/query_service.py), the Greeks calculator              *)
(* (services/greeks.py) and the price endpoint with its cache              *)
(* (api/endpoints/stocks.py).                                              *)
(*                                                                         *)
(* Time is wall-clock UTC in minutes.  Optional values (Python None) are   *)
(* modelled as sets with at most one element: {} is None, {v} is v.        *)
(***************************************************************************)
EXTENDS Integers, Sequences, FiniteSets, Bags, TLC

VARIABLES
    now,        \* wall clock, minutes (UTC)
    ev,         \* the operation that produced the current state, with its outcome
    hasConfig,  \* a scraper_schedule row exists
    cfg,        \* the scraper_schedule row
    sched,      \* SchedulerService: scheduler, _is_initialized; the scheduler:
                \* running, and its shutdown queued on the event loop; old:
                \* the schedulers the service has replaced while their
                \* shutdown was queued, each with its job and the instance
                \* count of its executor, the oldest first; queued_calls:
                \* the calls of the service since a shutdown waits on the
                \* event loop; mappers_fail: the ORM of the build cannot
                \* configure the mappers; initializing: initialize is
                \* between its commit of line 107 and line 110
    job,        \* the APScheduler job 'options_scraper'
    instances,  \* executor's count of running instances of the job
    wrappers,   \* the threads executing _scraper_job_wrapper, a bag of records
                \* (kind: who started the thread, the timer or the resume
                \* endpoint; exec: the executor that counts the thread;
                \* read_running: the thread read the status running at line
                \* 341 and has not committed yet; paused: history, the timer fired between a
                \* pause() and the next resume())
    runs,       \* scraper_runs rows: how many have status running, completed
    progress,   \* _scraper_progress
    premiums,   \* number of historical premium records the wrappers wrote
    resumed,    \* history: resume() was called since process start
    pausedNow,  \* history: pause() returned and resume() was not called since
    health,     \* SourceHealth: failure_count, cooldown_until
    keys,       \* StockPriceService: which API clients are configured
    last,       \* the last get_live_price call: candidates, calls made, result
    stocks,     \* the stocks table: the status of each ticker, or absent
    market,     \* what the providers and yfinance answer for each ticker
    store,      \* the historical_premium_records table
    runRows,    \* the scraper_runs table with the scraper_stock_logs of each run
    call,       \* the last call of _scrape_stock and its outcome
    marked,     \* what the expiry marker returned in its last run and, when
                \* the step before that was a run of the marker too, in that one
    response,   \* the last PUT /api/scheduler/config: the request and the answer
    quota,      \* scraper_schedule: daily_api_queries, last_reset_date, and
                \* what the last check_and_reset_daily_counter returned
    queryCall,  \* the last premium query: the table, the request and the answer
    greeksCall, \* the last calculate_greeks call: the arguments and the result
    price_cache, \* api/endpoints/stocks.py: _price_cache
    priceCall,  \* the last GET /api/stocks/{ticker}/price and its answer
    rateCall,   \* the last rate-limit calculation: the inputs and the answer
    chainCall   \* the last call of _process_options_dataframe and its records

schedVars  == <<hasConfig, cfg, sched, job, instances, wrappers, runs, progress,
                premiums, resumed, pausedNow>>
routerVars == <<health, keys, last>>
scraperVars == <<stocks, market, store, runRows, call, marked>>
apiVars    == <<response, quota, queryCall, greeksCall, price_cache, priceCall,
                rateCall, chainCall>>
vars       == <<now, ev, schedVars, routerVars, scraperVars, apiVars>>

----------------------------------------------------------------------------
(* Bounds of the model *)

StartNow     == 540   \* the clock when the process starts (2024-03-09 09:00 UTC)
MaxNow       == 600   \* the clock stops here
MaxWrappers  == 2     \* wrapper threads in flight
MaxRuns      == 2     \* wrapper invocations over the whole behaviour
MaxOldSchedulers == 1 \* replaced schedulers whose shutdown is still queued
MaxQueuedCalls == 1   \* calls of the service while a shutdown is queued
MaxFailures  == 2     \* recorded failures per provider before a success
MaxConsecutive == 5   \* the same, where only the health tracker is exercised
MaxDays      == 2     \* days the clock advances where the date matters
MaxScraperRuns == 1   \* collection runs where the tables are modelled row by row

MaxStrikes   == 2     \* strikes of a table, beside the two data sets of the specification
MaxQueries   == 3     \* API queries counted between two resets
QuotaStep    == 240   \* minutes between two evaluations of the query counter
MaxRows      == 2     \* rows of a DataFrame of option contracts
MaxCacheTicks == 2    \* steps of the clock where the price cache is exercised

TickMinutes  == 30    \* granularity of the clock

----------------------------------------------------------------------------
(* Values *)

None == {}
Some(v) == {v}
The(s) == CHOOSE v \in s : TRUE

\* str.upper on the tickers of the requests
Upper(ticker) == IF ticker = "xyz" THEN "XYZ" ELSE ticker

\* models/scraper_schedule.py: SchedulerStatus
SchedulerStatus == {"idle", "running", "paused", "error"}

\* pytz.all_timezones, as far as the model uses it
AllTimezones == {"UTC", "America/New_York"}

\* The clock counts the minutes since 2024-03-09T00:00 UTC, the day before
\* New York goes over to daylight saving time.  The periods of daylight
\* saving time of America/New_York in the tz database, from 2023 to 2026, as
\* pairs of the first minute and the minute after the last:
\* 2023-03-12T07:00 to 2023-11-05T06:00, 2024-03-10T07:00 to 2024-11-03T06:00,
\* 2025-03-09T07:00 to 2025-11-02T06:00, 2026-03-08T07:00 to 2026-11-01T06:00
DaylightSavingPeriods ==
    {<<0 - 522300, 0 - 179640>>, <<1860, 344520>>, <<526020, 868680>>,
     <<1050180, 1392840>>}

\* the zone observes daylight saving time at time t
InDaylightSavingTime(tz, t) ==
    /\ tz = "America/New_York"
    /\ \E p \in DaylightSavingPeriods : p[1] <= t /\ t < p[2]

\* datetime.now(tz).utcoffset() at time t, in minutes
UtcOffset(tz, t) ==
    IF tz = "America/New_York"
    THEN IF InDaylightSavingTime(tz, t) THEN 0 - 240 ELSE 0 - 300
    ELSE 0

\* datetime.now(tz).time(): the wall-clock time of day in zone tz
LocalTime(t, tz) == (t + UtcOffset(tz, t)) % (24 * 60)

\* market hours compared with the UTC time of day, the timezone ignored
is_market_hours_utc(c, t) ==
    LET current_time == t % (24 * 60)
    IN  c.market_hours_start <= current_time /\ current_time <= c.market_hours_end

\* ScraperSchedule.is_market_hours
is_market_hours(c, t) ==
    LET current_time == LocalTime(t, c.timezone)
    IN  c.market_hours_start <= current_time /\ current_time <= c.market_hours_end

----------------------------------------------------------------------------
(* The APScheduler job: IntervalTrigger, pause_job, resume_job,             *)
(* reschedule_job, max_instances                                            *)

\* add_job(..., max_instances=1, coalesce=True)
max_instances == 1

NoJob == [exists |-> FALSE, next_run_time |-> None, start_date |-> 0, interval |-> 0]

\* IntervalTrigger(minutes=m) created at time t: the first fire time is t + m
IntervalTrigger(m, t) == [start_date |-> t + m, interval |-> m]

\* IntervalTrigger.get_next_fire_time(None, t): the first point of the
\* trigger's grid at or after t
NextFireTime(j, t) ==
    IF j.start_date > t THEN j.start_date
    ELSE j.start_date
         + j.interval * (((t - j.start_date) + j.interval - 1) \div j.interval)

\* scheduler.add_job(trigger=..., replace_existing=True) on a scheduler that is
\* not started yet: the job is pending, its next run time is computed at start
add_job(m, t) ==
    LET tr == IntervalTrigger(m, t)
    IN  [exists |-> TRUE, next_run_time |-> Some(tr.start_date),
         start_date |-> tr.start_date, interval |-> tr.interval]

\* scheduler.pause_job: the job keeps its trigger and loses its next run time
pause_job(j) == [j EXCEPT !.next_run_time = None]

\* scheduler.resume_job: the next run time is recomputed from the trigger
resume_job(j, t) == [j EXCEPT !.next_run_time = Some(NextFireTime(j, t))]

\* scheduler.reschedule_job(trigger=IntervalTrigger(minutes=m)): the job gets
\* the new trigger and the next run time computed from it
reschedule_job(j, m, t) ==
    LET tr == IntervalTrigger(m, t)
    IN  [j EXCEPT !.next_run_time = Some(tr.start_date),
                  !.start_date = tr.start_date, !.interval = tr.interval]

\* SchedulerService.get_next_run_time
get_next_run_time(s, j) ==
    IF ~s.scheduler THEN None
    ELSE IF j.exists THEN j.next_run_time ELSE None

\* SchedulerService._schedule_scraper_job
ScheduleScraperJob(c, t) ==
    LET j == add_job(c.polling_interval_minutes, t)
    IN  IF c.scheduler_status = "paused" THEN pause_job(j) ELSE j

\* SchedulerService._reschedule_scraper_job
RescheduleScraperJob(j, c, t) == reschedule_job(j, c.polling_interval_minutes, t)

\* the next run time of a job has come
Due(j) == j.exists /\ j.next_run_time # None /\ The(j.next_run_time) <= now

----------------------------------------------------------------------------
(* Wrapper threads *)

\* the executor of a thread that no executor counts: a thread of the resume
\* endpoint, or a thread of a scheduler that has stopped
NoExecutor == 0 - 1

\* the executor of the scheduler the service holds; the executor of the k-th
\* replaced scheduler is k
ServiceExecutor == 0

\* a thread that was started and has not entered the wrapper yet
NewWrapper(kind, paused, exec) == [kind |-> kind, pc |-> "start", paused |-> paused, exec |-> exec, read_running |-> FALSE]

Put(bag, w) == bag (+) SetToBag({w})
Take(bag, w) == bag (-) SetToBag({w})

\* the threads in flight, and how many of them satisfy a condition
Wrappers == BagToSet(wrappers)
CountIn(bag, S) == BagCardinality([w \in S \cap BagToSet(bag) |-> bag[w]])

\* the bag of the images of the threads of a bag
MapBag(F(_), bag) ==
    [v \in {F(w) : w \in BagToSet(bag)} |->
        BagCardinality([w \in {u \in BagToSet(bag) : F(u) = v} |-> bag[w]])]

RunPcs == {"call", "opened"}

\* the wrapper is over (it has returned, or an exception has left it) and its
\* thread has not ended yet
ReturnPcs == {"noconfig", "skipped", "failed", "escaped"}

\* the threads the timer of a scheduler started, whether that scheduler still
\* runs or not
TimerWrappers == {w \in Wrappers : w.kind = "timer"}
\* timer-started threads inside scrape_all_stocks
TimerScrapingCount == CountIn(wrappers, {w \in TimerWrappers : w.pc = "opened"})
\* threads an exception has left the wrapper of
EscapedCount  == CountIn(wrappers, {w \in Wrappers : w.pc = "escaped"})
\* threads inside scrape_all_stocks, their run record open
ScrapingCount == CountIn(wrappers, {w \in Wrappers : w.pc = "opened"})
\* threads past the market hours check
InRunCount    == CountIn(wrappers, {w \in Wrappers : w.pc \in RunPcs})
\* threads that have not reached the market hours check
StartCount    == CountIn(wrappers, {w \in Wrappers : w.pc = "start"})

\* wrapper invocations so far that opened a run record or can still open one
Invocations ==
    runs.running + runs.completed
    + CountIn(wrappers, {w \in Wrappers : w.pc \in {"start", "checked", "call"}})

CanStart == BagCardinality(wrappers) < MaxWrappers /\ Invocations < MaxRuns

----------------------------------------------------------------------------
(* Initial state: the process has started, initialize was not called yet *)

Ev(op) == [op |-> op, src |-> "-"]

\* the rows a previous process can have left in scraper_schedule: market
\* hours from 09:30 to 16:00, or from 08:00 to 08:45
PersistedRows ==
    [polling_interval_minutes : {TickMinutes},
     market_hours_start : {480, 570},
     market_hours_end : {525, 960},
     timezone : AllTimezones,
     scheduler_status : SchedulerStatus,
     last_run_timestamp : {None},
     next_run_timestamp : {None},
     stock_delay_seconds : {10},
     max_expirations : {8}]

\* _scraper_progress as the module defines it (the lists as sequences; the
\* current source and the two times are left out)
InitProgress ==
    [is_running |-> FALSE, total_stocks |-> 0, completed_stocks |-> 0,
     current_stock |-> None, pending_stocks |-> <<>>,
     completed_stock_list |-> <<>>, failed_stocks |-> <<>>]

\* scrape_all_stocks, lines 127-139: the tracker as a run initialises it once
\* it has its snapshot
StartedProgress(pending_tickers) ==
    [is_running |-> TRUE, total_stocks |-> Len(pending_tickers),
     completed_stocks |-> 0, current_stock |-> None,
     pending_stocks |-> pending_tickers,
     completed_stock_list |-> <<>>, failed_stocks |-> <<>>]

\* SchedulerService.__init__: no scheduler yet; the session factory of the
\* process accepts the mappers
NoService ==
    [scheduler |-> FALSE, is_initialized |-> FALSE, running |-> FALSE,
     stopping |-> FALSE, old |-> <<>>, queued_calls |-> 0, mappers_fail |-> FALSE,
     initializing |-> FALSE]

\* the same service in a build whose ORM cannot configure the mappers: the
\* foreign keys of models/historical_premium_record.py line 38 and
\* models/watchlist.py line 32 name the table stock where the table of Stock
\* is stocks (models/stock.py line 25), so the first query of a session and
\* every later one raises
BrokenService == [NoService EXCEPT !.mappers_fail = TRUE]

\* the rows whose market hours are 09:30 to 16:00
LongDayRows ==
    {r \in PersistedRows : r.market_hours_start = 570 /\ r.market_hours_end = 960}

\* the rows whose market hours are 08:00 to 08:45 in UTC, over when the
\* process starts
EarlyRows ==
    {r \in PersistedRows :
        r.market_hours_start = 480 /\ r.market_hours_end = 525 /\ r.timezone = "UTC"}

InitSched(rows, services) ==
    /\ hasConfig \in BOOLEAN
    /\ cfg \in rows
    /\ (~hasConfig => /\ cfg.scheduler_status = "idle" /\ cfg.timezone = "UTC"
                      /\ cfg \in LongDayRows)
    /\ sched \in services
    /\ job = NoJob
    /\ instances = 0
    /\ wrappers = EmptyBag
    /\ runs = [running |-> 0, completed |-> 0]
    /\ progress = InitProgress
    /\ premiums = 0
    /\ resumed = FALSE
    /\ pausedNow = FALSE

\* where the scheduler is at rest: a session that accepts the mappers
InitSchedVars == InitSched(LongDayRows, {NoService})

----------------------------------------------------------------------------
(* SchedulerService *)

\* a shutdown waits on the event loop for its turn
ShutdownQueued == sched.stopping \/ sched.old # <<>>

\* the event loop is not inside initialize.  startup_event, the endpoints,
\* the timers of the schedulers and their queued shutdowns all run on the
\* event loop, one at a time; the threads of the wrapper run beside it.
EventLoopFree == ~sched.initializing

\* the service can be called: the event loop is free, and it runs a queued
\* shutdown before more than MaxQueuedCalls calls were made
CanCall ==
    /\ EventLoopFree
    /\ ShutdownQueued => sched.queued_calls < MaxQueuedCalls

\* the service after a call that leaves its scheduler in place
Called(s) == [s EXCEPT !.queued_calls = IF ShutdownQueued THEN @ + 1 ELSE @]

\* the service after the event loop ran a queued shutdown
Dequeued(s) ==
    [s EXCEPT !.queued_calls = IF s.stopping \/ s.old # <<>> THEN @ ELSE 0]

\* the service after line 92 replaced its scheduler by a new one, which is
\* not started: olds are the replaced schedulers whose shutdown is queued
NewScheduler(olds) ==
    [scheduler |-> TRUE, is_initialized |-> FALSE, running |-> FALSE,
     stopping |-> FALSE, old |-> olds,
     queued_calls |-> IF olds = <<>> THEN 0 ELSE sched.queued_calls + 1,
     mappers_fail |-> sched.mappers_fail, initializing |-> FALSE]

\* the threads of the service's executor after the service replaced its
\* scheduler by the k-th of the replaced ones
ToOld(k, w) == IF w.exec = ServiceExecutor THEN [w EXCEPT !.exec = k] ELSE w

\* SchedulerService.initialize: line 85 returns on a service that is
\* initialized; otherwise (at the start of the process, or after shutdown,
\* whether the shutdown it queued has had its turn or not) line 92 creates a
\* new scheduler.  A scheduler that is replaced while its shutdown is queued
\* goes on with its job and its executor until the event loop runs the
\* shutdown.  The query of _load_config (line 250) raises when the ORM cannot
\* configure the mappers and returns the row otherwise.  initialize has no
\* except clause: the new scheduler stays, not started and without a job.
\* For a row whose status is not paused, lines 103-107 commit the status
\* paused; the commit expires the row object, and line 110 reads the row
\* again (InitializeSchedule), after whatever the threads of the wrapper
\* committed in between.  A row that was loaded as paused is not committed
\* and not read again: lines 110-117 use the status that line 95 loaded.
Initialize ==
    /\ ~sched.is_initialized
    /\ CanCall
    /\ sched.stopping => Len(sched.old) < MaxOldSchedulers
    /\ LET olds == IF sched.stopping
                   THEN Append(sched.old, [due |-> Due(job), instances |-> instances])
                   ELSE sched.old
       IN  /\ IF sched.mappers_fail
              THEN /\ sched' = NewScheduler(olds)
                   /\ job' = NoJob
                   /\ cfg' = cfg
                   /\ ev' = Ev("initialize_error")
              ELSE IF ~hasConfig
              THEN /\ sched' = NewScheduler(olds)
                   /\ job' = NoJob
                   /\ cfg' = cfg
                   /\ ev' = Ev("initialize_noconfig")
              ELSE IF cfg.scheduler_status = "paused"
              THEN /\ cfg' = cfg
                   /\ job' = ScheduleScraperJob(cfg, now)
                   /\ sched' = [NewScheduler(olds) EXCEPT !.is_initialized = TRUE,
                                                          !.running = TRUE]
                   /\ ev' = Ev("initialize")
              ELSE /\ cfg' = [cfg EXCEPT !.scheduler_status = "paused"]
                   /\ job' = NoJob
                   /\ sched' = [NewScheduler(olds) EXCEPT !.initializing = TRUE]
                   /\ ev' = Ev("initialize_commit")
           /\ instances' = 0
           /\ wrappers' = IF sched.stopping
                          THEN MapBag(LAMBDA w : ToOld(Len(olds), w), wrappers)
                          ELSE wrappers
    /\ UNCHANGED <<now, hasConfig, runs, progress, premiums,
                   resumed, pausedNow, routerVars, scraperVars, apiVars>>

\* SchedulerService.initialize, lines 110-117, after the commit of line 107:
\* _schedule_scraper_job reads the row again (line 261), adds the job and
\* pauses it when the status it read is paused (line 278); then the scheduler
\* is started and the service is initialized
InitializeSchedule ==
    /\ sched.initializing
    /\ job' = ScheduleScraperJob(cfg, now)
    /\ sched' = [sched EXCEPT !.is_initialized = TRUE, !.running = TRUE,
                              !.initializing = FALSE]
    /\ ev' = Ev("initialize")
    /\ UNCHANGED <<now, hasConfig, cfg, instances, wrappers, runs, progress, premiums,
                   resumed, pausedNow, routerVars, scraperVars, apiVars>>

\* a thread after the scheduler with executor k stopped: AsyncIOExecutor.shutdown
\* cancels the future of the thread and forgets it, the thread runs on; the
\* replaced schedulers behind the one that stopped move up
Orphan(k, w) ==
    IF w.exec = k THEN [w EXCEPT !.exec = NoExecutor]
    ELSE IF k > ServiceExecutor /\ w.exec > k THEN [w EXCEPT !.exec = @ - 1]
    ELSE w

Orphaned(k, bag) == MapBag(LAMBDA w : Orphan(k, w), bag)

\* SchedulerService.shutdown: on a scheduler that is running,
\* scheduler.shutdown(wait=True) queues the shutdown on the event loop and
\* returns, and the service is no longer initialized; on a scheduler that is
\* not running nothing happens
Shutdown ==
    /\ CanCall
    /\ IF sched.scheduler /\ sched.running
       THEN /\ sched' = [Called(sched) EXCEPT !.is_initialized = FALSE, !.stopping = TRUE]
            /\ ev' = Ev("shutdown")
       ELSE /\ ev' = Ev("shutdown_idle")
            /\ sched' = Called(sched)
    /\ UNCHANGED <<now, hasConfig, cfg, job, instances, wrappers, runs, progress,
                   premiums, resumed, pausedNow, routerVars, scraperVars, apiVars>>

\* the event loop runs the shutdown that the service queued for the scheduler
\* it holds (the calls of the loop run in the order they were queued, those
\* for replaced schedulers first): the scheduler stops, its job store is
\* emptied, and its executor cancels the futures of its threads and forgets
\* them (the threads run on)
SchedulerStop ==
    /\ EventLoopFree
    /\ sched.stopping
    /\ sched.old = <<>>
    /\ sched' = Dequeued([sched EXCEPT !.running = FALSE, !.stopping = FALSE])
    /\ job' = NoJob
    /\ instances' = 0
    /\ wrappers' = Orphaned(ServiceExecutor, wrappers)
    /\ ev' = Ev("stopped")
    /\ UNCHANGED <<now, hasConfig, cfg, runs, progress, premiums, resumed,
                   pausedNow, routerVars, scraperVars, apiVars>>

\* the event loop runs the shutdown of the oldest replaced scheduler
OldSchedulerStop ==
    /\ EventLoopFree
    /\ sched.old # <<>>
    /\ sched' = Dequeued([sched EXCEPT !.old = Tail(@)])
    /\ wrappers' = Orphaned(1, wrappers)
    /\ ev' = Ev("old_stopped")
    /\ UNCHANGED <<now, hasConfig, cfg, job, instances, runs, progress, premiums,
                   resumed, pausedNow, routerVars, scraperVars, apiVars>>

\* SchedulerService.pause
Pause ==
    /\ CanCall
    /\ sched' = Called(sched)
    /\ IF ~sched.scheduler \/ ~job.exists
       THEN \* RuntimeError, or JobLookupError from pause_job
            /\ ev' = Ev("pause_error")
            /\ UNCHANGED <<cfg, job, pausedNow>>
       ELSE /\ job' = pause_job(job)
            /\ cfg' = IF hasConfig THEN [cfg EXCEPT !.scheduler_status = "paused"]
                      ELSE cfg
            /\ pausedNow' = TRUE
            /\ ev' = Ev("pause")
    /\ UNCHANGED <<now, hasConfig, instances, wrappers, runs, progress,
                   premiums, resumed, routerVars, scraperVars, apiVars>>

\* api/endpoints/scheduler.py resume_scheduler(start_now): SchedulerService.resume,
\* then with start_now a daemon thread running _scraper_job_wrapper
Resume(start_now) ==
    /\ CanCall
    /\ sched' = Called(sched)
    /\ IF ~sched.scheduler \/ ~job.exists
       THEN \* RuntimeError, or JobLookupError from resume_job: no thread is started
            /\ ev' = Ev("resume_error")
            /\ UNCHANGED <<cfg, job, resumed, pausedNow, wrappers>>
       ELSE LET j == resume_job(job, now)
            IN  /\ job' = j
                /\ cfg' = IF hasConfig
                          THEN [cfg EXCEPT !.scheduler_status = "idle",
                                           !.next_run_timestamp = get_next_run_time(sched, j)]
                          ELSE cfg
                /\ resumed' = TRUE
                /\ pausedNow' = FALSE
                /\ IF start_now
                   THEN /\ CanStart
                        /\ wrappers' = Put(wrappers, NewWrapper("manual", FALSE, NoExecutor))
                        /\ ev' = Ev("resume_start_now")
                   ELSE /\ wrappers' = wrappers
                        /\ ev' = Ev("resume")
    /\ UNCHANGED <<now, hasConfig, instances, runs, progress, premiums,
                   routerVars, scraperVars, apiVars>>

\* the values update_config is called with; an absent argument is None
IntervalArgs == {None, Some(0), Some(TickMinutes)}
StartArgs    == {None}
EndArgs      == {None, Some(450)}
TimezoneArgs == {None, Some("UTC"), Some("Mars/Phobos")}

\* the calls of update_config: no argument, or one
UpdateArgs ==
    {a \in [interval : IntervalArgs, start : StartArgs, end : EndArgs,
            timezone : TimezoneArgs] :
        Cardinality({f \in DOMAIN a : a[f] # None}) <= 1}

OrElse(arg, old) == IF arg = None THEN old ELSE The(arg)

\* SchedulerService.update_config, lines 193-231, on a service whose scheduler
\* exists and whose configuration row is c0
update_config(c0, j, s, iv, st, en, tz, t) ==
    LET c == [c0 EXCEPT
                !.polling_interval_minutes = OrElse(iv, @),
                !.market_hours_start = OrElse(st, @),
                !.market_hours_end = OrElse(en, @),
                !.timezone = OrElse(tz, @)]
        valid == /\ iv # None => (1 <= The(iv) /\ The(iv) <= 1440)
                 /\ tz # None => The(tz) \in AllTimezones
                 /\ ~(c.market_hours_start >= c.market_hours_end)
    IN  IF ~valid
        THEN [raised |-> TRUE, job |-> j, cfg |-> c0]
        ELSE IF ~j.exists
        THEN \* line 221 committed the row, reschedule_job raises JobLookupError
             [raised |-> TRUE, job |-> j, cfg |-> c]
        ELSE LET j2 == RescheduleScraperJob(j, c, t)
             IN  [raised |-> FALSE, job |-> j2,
                  cfg |-> [c EXCEPT !.next_run_timestamp = get_next_run_time(s, j2)]]

\* SchedulerService.update_config: the query of _load_config (line 195)
\* raises when the ORM cannot configure the mappers
UpdateConfig(iv, st, en, tz) ==
    /\ CanCall
    /\ sched' = Called(sched)
    /\ sched.scheduler        \* else RuntimeError
    /\ hasConfig              \* else ValueError
    /\ IF sched.mappers_fail
       THEN /\ ev' = Ev("update_config_error")
            /\ UNCHANGED <<job, cfg>>
       ELSE /\ job' = update_config(cfg, job, sched, iv, st, en, tz, now).job
            /\ cfg' = update_config(cfg, job, sched, iv, st, en, tz, now).cfg
            /\ ev' = IF update_config(cfg, job, sched, iv, st, en, tz, now).raised
                     THEN Ev("update_config_error") ELSE Ev("update_config")
    /\ UNCHANGED <<now, hasConfig, instances, wrappers, runs, progress,
                   premiums, resumed, pausedNow, routerVars, scraperVars, apiVars>>

----------------------------------------------------------------------------
(* The timer *)

\* the scheduler of the service runs (its shutdown may be queued) and the
\* job's next run time has come
FireDue == sched.running /\ Due(job)

\* the clock advances; the timer and the event loop are punctual, so not
\* while a firing is due or a call is queued, and not inside initialize,
\* whose two round trips to the database lie within one step of the clock
Tick ==
    /\ EventLoopFree
    /\ ~FireDue
    /\ ~ShutdownQueued
    /\ now + TickMinutes <= MaxNow
    /\ now' = now + TickMinutes
    /\ ev' = Ev("tick")
    /\ UNCHANGED <<schedVars, routerVars, scraperVars, apiVars>>

\* the job after its due run times were processed (coalesce=True): the next
\* run time is one interval after the last due point of the grid
AfterFire(j, t) ==
    LET first == The(j.next_run_time)
        lastDue == first + j.interval * ((t - first) \div j.interval)
    IN  [j EXCEPT !.next_run_time = Some(lastDue + j.interval)]

\* BaseExecutor.submit_job under max_instances: the firing starts the wrapper in
\* an executor thread, or is skipped when the job has max_instances running
Fire ==
    /\ FireDue
    /\ job' = AfterFire(job, now)
    /\ IF instances >= max_instances
       THEN /\ ev' = Ev("drop")
            /\ UNCHANGED <<instances, wrappers>>
       ELSE /\ CanStart
            /\ instances' = instances + 1
            /\ wrappers' = Put(wrappers, NewWrapper("timer", pausedNow, ServiceExecutor))
            /\ ev' = Ev("fire")
    /\ UNCHANGED <<now, hasConfig, cfg, sched, runs, progress, premiums, resumed,
                   pausedNow, routerVars, scraperVars, apiVars>>

\* the same for the k-th replaced scheduler, which runs until the event loop
\* gets to its shutdown: its job fires into its own executor
OldFire(k) ==
    /\ EventLoopFree
    /\ k \in 1 .. Len(sched.old)
    /\ sched.old[k].due
    /\ IF sched.old[k].instances >= max_instances
       THEN /\ sched' = [sched EXCEPT !.old[k].due = FALSE]
            /\ ev' = Ev("drop")
            /\ UNCHANGED wrappers
       ELSE /\ CanStart
            /\ sched' = [sched EXCEPT !.old[k].due = FALSE,
                                      !.old[k].instances = @ + 1]
            /\ wrappers' = Put(wrappers, NewWrapper("timer", pausedNow, k))
            /\ ev' = Ev("fire")
    /\ UNCHANGED <<now, hasConfig, cfg, job, instances, runs, progress, premiums,
                   resumed, pausedNow, routerVars, scraperVars, apiVars>>

----------------------------------------------------------------------------
(* SchedulerService._scraper_job_wrapper, one thread per invocation *)

\* the thread of a wrapper that is over ends; for a thread of an executor
\* the callback of its future then runs on the event loop and the executor
\* releases the instance
Returned(w) ==
    /\ wrappers' = Take(wrappers, w)
    /\ instances' = IF w.exec = ServiceExecutor THEN instances - 1 ELSE instances
    /\ sched' = IF w.exec > ServiceExecutor
                THEN [sched EXCEPT !.old[w.exec].instances = @ - 1]
                ELSE sched

\* the thread goes on to the next part of the wrapper
Goes(w, pc) == wrappers' = Put(Take(wrappers, w), [w EXCEPT !.pc = pc])

\* lines 336-349: open a session, load the configuration, check the market
\* hours.  next(get_db()) (line 337) stands before the try statement: an
\* exception of the session factory leaves the wrapper at once.  The thread
\* keeps the row object it loaded; whether the status it read is running
\* decides what the commit of line 354 writes.
WrapperCheck(w) ==
    /\ w.pc = "start"
    /\ \E session_raises \in BOOLEAN :
         IF session_raises
         THEN /\ Goes(w, "escaped")
              /\ ev' = Ev("session_error")
         ELSE IF ~hasConfig
         THEN /\ Goes(w, "noconfig")
              /\ ev' = Ev("noconfig")
         ELSE IF ~is_market_hours(cfg, now)
         THEN /\ Goes(w, "skipped")
              /\ ev' = Ev("skip")
         ELSE /\ wrappers' = Put(Take(wrappers, w),
                                 [w EXCEPT !.pc = "checked",
                                           !.read_running = cfg.scheduler_status = "running"])
              /\ ev' = Ev("check")
    /\ UNCHANGED <<now, hasConfig, cfg, sched, job, instances, runs, progress,
                   premiums, resumed, pausedNow, routerVars, scraperVars, apiVars>>

\* lines 351-354: the thread sets the status running and the time of the run
\* on the row object it loaded and commits.  The flush writes the columns
\* whose value differs from the loaded one: the time of the run, and the
\* status unless the thread had read running; a column another session wrote
\* since line 341 keeps that value otherwise.
WrapperMark(w) ==
    /\ w.pc = "checked"
    /\ cfg' = [cfg EXCEPT !.scheduler_status = IF w.read_running THEN @ ELSE "running",
                          !.last_run_timestamp = Some(now)]
    /\ wrappers' = Put(Take(wrappers, w), [w EXCEPT !.pc = "call", !.read_running = FALSE])
    /\ ev' = Ev("begin")
    /\ UNCHANGED <<now, hasConfig, sched, job, instances, runs, progress, premiums,
                   resumed, pausedNow, routerVars, scraperVars, apiVars>>

\* models/stock.py: the member names of StockStatus
StockStatusMembers == {"ACTIVE", "DELISTED", "INACTIVE"}

\* YahooFinanceScraper._get_active_watchlist reads StockStatus.active: the
\* attribute lookup on the enumeration class succeeds for a member name only
ActiveLookupRaises == "active" \notin StockStatusMembers

\* YahooFinanceScraper.scrape_all_stocks, lines 98-110: the run record is
\* created with status running and committed
ScrapeStart(w) ==
    /\ w.pc = "call"
    /\ runs' = [runs EXCEPT !.running = @ + 1]
    /\ Goes(w, "opened")
    /\ ev' = Ev("scrape_start")
    /\ UNCHANGED <<now, hasConfig, cfg, sched, job, instances, progress, premiums,
                   resumed, pausedNow, routerVars, scraperVars, apiVars>>

\* the status the except clause of the wrapper persists
FailureStatus == "error"

\* lines 376-386: an exception escaped create_scraper or scrape_all_stocks and
\* the except clause loads the row again (line 379) and commits the error
\* status (lines 381-382), in the session of the wrapper and without a
\* rollback.  The clause has no handler of its own: when its query or its
\* commit raises (the database cannot be reached, or the session is left in a
\* failed transaction), the exception leaves the wrapper and the row is as it
\* was.  With the run record open the
\* next statement of scrape_all_stocks (line 113, _get_active_watchlist) raises
\* AttributeError, so no run gets past it: the snapshot, the loop over the
\* stocks, the closing of the run record (lines 114-240) and the return to
\* idle (lines 362-374) are not reached.
WrapperFail(w) ==
    /\ w.pc = "call" \/ (w.pc = "opened" /\ ActiveLookupRaises)
    /\ \E handler_raises \in BOOLEAN :
         IF handler_raises
         THEN /\ cfg' = cfg
              /\ Goes(w, "escaped")
              /\ ev' = Ev("fail_escaped")
         ELSE /\ cfg' = IF hasConfig THEN [cfg EXCEPT !.scheduler_status = FailureStatus]
                        ELSE cfg
              /\ Goes(w, "failed")
              /\ ev' = Ev("fail")
    /\ UNCHANGED <<now, hasConfig, sched, job, instances, runs, progress, premiums,
                   resumed, pausedNow, routerVars, scraperVars, apiVars>>

\* lines 385-386 and the executor: the wrapper is over (it returned at line
\* 342 or 349 or after its error commit, or an exception left it) and its
\* thread ends; the event names the place the wrapper ended at
WrapperReturn(w) ==
    /\ w.pc \in ReturnPcs
    /\ Returned(w)
    /\ ev' = [op |-> "returned", src |-> w.pc]
    /\ UNCHANGED <<now, hasConfig, cfg, job, runs, progress, premiums,
                   resumed, pausedNow, routerVars, scraperVars, apiVars>>

----------------------------------------------------------------------------
(* services/stock_price_service.py: SourceHealth *)

\* PriceSource
PriceSource == {"yahoo_finance", "alpha_vantage", "finnhub", "database"}

\* the fixed priority order of get_next_available_sources and get_live_price
SourceOrder == <<"yahoo_finance", "alpha_vantage", "finnhub">>

\* record_failure(source, cooldown_minutes=30)
cooldown_minutes == 30

\* _scrape_stock, line 316: max_expirations when there is no schedule row
max_expirations == 8

\* SourceHealth.__init__
InitHealth ==
    [failure_count |-> [s \in PriceSource |-> 0],
     cooldown_until |-> [s \in PriceSource |-> None]]

Min(a, b) == IF a <= b THEN a ELSE b

\* a quotient of two integers, kept as the pair of the numerator and the
\* denominator (the denominator is positive)
Ratio(n, d) == <<n, d>>
RatioLeq(q, k) == q[1] <= k * q[2]

\* a success that resets the count and keeps the cooldown entry
record_success_keeps_cooldown(h, s) ==
    [failure_count |-> [h.failure_count EXCEPT ![s] = 0],
     cooldown_until |-> h.cooldown_until]

\* SourceHealth.record_success
record_success(h, s) ==
    [failure_count |-> [h.failure_count EXCEPT ![s] = 0],
     cooldown_until |-> [h.cooldown_until EXCEPT ![s] = None]]

\* a backoff that keeps doubling
cooldown_multiplier_uncapped(count) == 2 ^ (count - 1)

\* the exponential backoff of record_failure: min(2 ** (failure_count - 1), 8)
cooldown_multiplier(count) == Min(2 ^ (count - 1), 8)

\* a failure that sets the cooldown and leaves the count as it was
record_failure_keeping_count(h, s, t) ==
    [failure_count |-> h.failure_count,
     cooldown_until |-> [h.cooldown_until EXCEPT ![s] =
                           Some(t + cooldown_minutes
                                    * cooldown_multiplier(h.failure_count[s] + 1))]]

\* SourceHealth.record_failure at time t
record_failure(h, s, t) ==
    LET count == h.failure_count[s] + 1
    IN  [failure_count |-> [h.failure_count EXCEPT ![s] = count],
         cooldown_until |-> [h.cooldown_until EXCEPT ![s] =
                               Some(t + cooldown_minutes * cooldown_multiplier(count))]]

\* a cooldown that still holds at its expiry time
is_available_strict(h, s, t) ==
    IF h.cooldown_until[s] = None THEN TRUE
    ELSE t > The(h.cooldown_until[s])

\* SourceHealth.is_available at time t: the answer
is_available(h, s, t) ==
    IF h.cooldown_until[s] = None THEN TRUE
    ELSE t >= The(h.cooldown_until[s])

\* SourceHealth.is_available at time t: the health it leaves (an expired
\* cooldown entry is deleted)
AfterIsAvailable(h, s, t) ==
    IF h.cooldown_until[s] # None /\ t >= The(h.cooldown_until[s])
    THEN [h EXCEPT !.cooldown_until[s] = None]
    ELSE h

RECURSIVE AfterAllAvailable(_, _, _)
AfterAllAvailable(h, srcs, t) ==
    IF srcs = <<>> THEN h
    ELSE AfterAllAvailable(AfterIsAvailable(h, Head(srcs), t), Tail(srcs), t)

RECURSIVE Filter(_, _, _)
Filter(h, srcs, t) ==
    IF srcs = <<>> THEN <<>>
    ELSE IF is_available(h, Head(srcs), t)
         THEN <<Head(srcs)>> \o Filter(h, Tail(srcs), t)
         ELSE Filter(h, Tail(srcs), t)

\* list.sort(key=failure_count): stable insertion of x into a sorted list
RECURSIVE Insert(_, _, _)
Insert(x, sorted, key) ==
    IF sorted = <<>> THEN <<x>>
    ELSE IF key[x] < key[Head(sorted)] THEN <<x>> \o sorted
         ELSE <<Head(sorted)>> \o Insert(x, Tail(sorted), key)

RECURSIVE SortByKey(_, _)
SortByKey(srcs, key) ==
    IF srcs = <<>> THEN <<>>
    ELSE Insert(srcs[Len(srcs)], SortByKey(SubSeq(srcs, 1, Len(srcs) - 1), key), key)

\* the available sources in priority order, whatever their failure counts
get_next_available_sources_unsorted(h, t) == Filter(h, SourceOrder, t)

\* SourceHealth.get_next_available_sources at time t: the list it returns
get_next_available_sources(h, t) ==
    SortByKey(Filter(h, SourceOrder, t), h.failure_count)

----------------------------------------------------------------------------
(* services/stock_price_service.py: StockPriceService *)

\* Python truthiness of an optional number
Truthy(o) == o # None /\ The(o) # 0

\* what yfinance answers: Ticker.info, Ticker.history, or an exception
YahooResponses ==
    [raises : {"never", "info", "history"},
     currentPrice : {None, Some(0), Some(2)},
     regularMarketPrice : {None, Some(2)},
     close : {None, Some(0)}]

\* what Alpha Vantage answers: the '05. price' entry of the quote, or an exception
AlphaVantageResponses == [raises : BOOLEAN, price : {None, Some(0), Some(5)}]

\* what Finnhub answers: the 'c' entry of the quote, or an exception
FinnhubResponses == [raises : BOOLEAN, c : {None, Some(0), Some(6)}]

\* StockPriceService.fetch_from_yahoo
fetch_from_yahoo(y) ==
    IF y.raises = "info" THEN None
    ELSE LET price == IF Truthy(y.currentPrice) THEN y.currentPrice
                      ELSE y.regularMarketPrice
         IN  IF Truthy(price) THEN price
             ELSE IF y.raises = "history" THEN None
             ELSE y.close

\* StockPriceService.fetch_from_alpha_vantage
fetch_from_alpha_vantage(client, a) ==
    IF ~client THEN None
    ELSE IF a.raises THEN None
    ELSE a.price

\* StockPriceService.fetch_from_finnhub
fetch_from_finnhub(client, f) ==
    IF ~client THEN None
    ELSE IF f.raises THEN None
    ELSE IF f.c # None /\ The(f.c) > 0 THEN f.c
    ELSE None

\* the prices the three fetchers can return for one request
YahooPrices == {fetch_from_yahoo(y) : y \in YahooResponses}
AlphaVantagePrices(client) ==
    {fetch_from_alpha_vantage(client, a) : a \in AlphaVantageResponses}
FinnhubPrices(client) == {fetch_from_finnhub(client, f) : f \in FinnhubResponses}

\* the dispatch of get_live_price, lines 200-205; fetched maps each source to
\* what its fetcher returns for this request
Fetch(fetched, s) == fetched[s]

\* get_live_price, lines 207-217: a price that is not None is a success
Usable(price) == price # None

\* get_live_price, lines 196-224: the loop over the candidates.  The three
\* fetchers catch every exception themselves and return None, so the except
\* clause of the loop (lines 219-221, record_failure) is never entered.
RECURSIVE TrySources(_, _, _, _)
TrySources(h, srcs, fetched, calls) ==
    IF srcs = <<>>
    THEN [health |-> h, result |-> None, calls |-> calls]
    ELSE LET s == Head(srcs)
             price == Fetch(fetched, s)
         IN  IF Usable(price)
             THEN [health |-> record_success(h, s),
                   result |-> Some([price |-> The(price), source |-> s]),
                   calls |-> Append(calls, s)]
             ELSE TrySources(h, Tail(srcs), fetched, Append(calls, s))

\* get_live_price, lines 184-192: the candidates of a request
Candidates(h, t) ==
    LET available == get_next_available_sources(h, t)
    IN  IF available = <<>> THEN SourceOrder ELSE available

\* StockPriceService.get_live_price at time t
get_live_price(h, fetched, t) ==
    LET cands == Candidates(h, t)
        out == TrySources(AfterAllAvailable(h, SourceOrder, t), cands, fetched, <<>>)
    IN  [health |-> out.health, result |-> out.result, calls |-> out.calls,
         candidates |-> cands]

NoFetch == [s \in {"yahoo_finance", "alpha_vantage", "finnhub"} |-> None]
NoCall == [result |-> None, calls |-> <<>>, candidates |-> <<>>,
           fetched |-> NoFetch, before |-> InitHealth]

InitRouterVars ==
    /\ health = InitHealth
    /\ keys \in {[alpha_vantage |-> b, finnhub |-> b] : b \in BOOLEAN}
    /\ last = NoCall

\* a request for a live price
GetLivePrice ==
    /\ \E y \in YahooPrices, a \in AlphaVantagePrices(keys.alpha_vantage),
          f \in FinnhubPrices(keys.finnhub) :
         LET fetched == [s \in DOMAIN NoFetch |->
                           IF s = "yahoo_finance" THEN y
                           ELSE IF s = "alpha_vantage" THEN a ELSE f]
             out == get_live_price(health, fetched, now)
         IN  /\ health' = out.health
             /\ last' = [result |-> out.result, calls |-> out.calls,
                          candidates |-> out.candidates, fetched |-> fetched,
                          before |-> health]
             /\ ev' = [op |-> "get_live_price",
                       src |-> IF out.result = None THEN "-" ELSE The(out.result).source]
    /\ UNCHANGED <<now, keys, schedVars, scraperVars, apiVars>>

\* a call of SourceHealth.record_failure
RecordFailure(s) ==
    /\ health.failure_count[s] < MaxFailures
    /\ health' = record_failure(health, s, now)
    /\ last' = NoCall
    /\ ev' = [op |-> "record_failure", src |-> s]
    /\ UNCHANGED <<now, keys, schedVars, scraperVars, apiVars>>

\* a call of SourceHealth.record_success
RecordSuccess(s) ==
    /\ health' = record_success(health, s)
    /\ last' = NoCall
    /\ ev' = [op |-> "record_success", src |-> s]
    /\ UNCHANGED <<now, keys, schedVars, scraperVars, apiVars>>

\* a call of SourceHealth.record_failure, in a longer series of failures
FailAgain(s) ==
    /\ health.failure_count[s] < MaxConsecutive
    /\ health' = record_failure(health, s, now)
    /\ last' = NoCall
    /\ ev' = [op |-> "record_failure", src |-> s]
    /\ UNCHANGED <<now, keys, schedVars, scraperVars, apiVars>>

\* the clock advances between two calls
RouterTick ==
    /\ now + TickMinutes <= MaxNow
    /\ now' = now + TickMinutes
    /\ last' = NoCall
    /\ ev' = Ev("tick")
    /\ UNCHANGED <<health, keys, schedVars, scraperVars, apiVars>>

----------------------------------------------------------------------------
(* services/scraper.py: YahooFinanceScraper, and the watchlist endpoints *)

Tickers == {"XYZ", "ABC"}

\* the orders in which a query without ORDER BY can return the values of S
RECURSIVE Orders(_)
Orders(S) ==
    IF S = {} THEN {<<>>}
    ELSE UNION {{<<x>> \o o : o \in Orders(S \ {x})} : x \in S}

\* datetime.now().date(): the day number of a time in minutes
Date(t) == t \div (24 * 60)

StartDay == Date(StartNow)

Max(a, b) == IF a >= b THEN a ELSE b

\* one row of an option chain as yfinance returns it
ScenarioRow == [strike |-> 100, lastPrice |-> Some(5), bid |-> 0, ask |-> 0,
                impliedVolatility |-> Some(3), nan |-> {}]

\* an expiration of a chain: its date, whether option_chain() raises for it,
\* its calls and its puts
ScenarioExpiration ==
    [date |-> StartDay + 10, raises |-> FALSE, calls |-> <<ScenarioRow>>, puts |-> <<>>]
FailingExpiration ==
    [date |-> StartDay + 3, raises |-> TRUE, calls |-> <<>>, puts |-> <<>>]

\* Ticker.options and Ticker.option_chain of a ticker
Chain(id) ==
    IF id = "scenario" THEN <<ScenarioExpiration>>
    ELSE <<FailingExpiration, ScenarioExpiration>>

\* what the outside world answers for a ticker: the price the router's
\* providers yield (None: every provider fails) and the option chain
MarketAnswers ==
    {[quote |-> None, chain |-> "scenario"],
     [quote |-> Some(100), chain |-> "scenario"],
     [quote |-> Some(100), chain |-> "partial"]}

\* a HistoricalPremiumRecord row; run is the scraper run that wrote it, 0 for
\* a row that was in the table before
PremiumRecord(ticker, expiration_date, days_to_expiry, contract_status, greeks, run) ==
    [ticker |-> ticker, expiration_date |-> expiration_date,
     days_to_expiry |-> days_to_expiry, contract_status |-> contract_status,
     greeks |-> greeks, run |-> run]

\* rows the table can hold when the process starts
SeedRecords ==
    {PremiumRecord("XYZ", StartDay - 1, 1, "active", TRUE, 0),
     PremiumRecord("XYZ", StartDay - 1, 2, "expired", TRUE, 0),
     PremiumRecord("XYZ", StartDay, 3, "active", FALSE, 0),
     PremiumRecord("ABC", StartDay + 1, 4, "active", TRUE, 0)}

\* a ScraperRun row as scrape_all_stocks creates it (lines 104-107, the
\* column defaults of models/scraper_run_log.py), its ScraperStockLog rows,
\* and history: the stocks that were active when it was created, whether the
\* watchlist changed while it was executing, whether its execution has ended
NewRun(active) ==
    [status |-> "running", end_time |-> None, total_stocks |-> 0,
     successful_stocks |-> 0, failed_stocks |-> 0, total_contracts |-> 0,
     stock_logs |-> <<>>, snapshot |-> active, mutated |-> FALSE, ended |-> FALSE]

NoScrapeCall == [ticker |-> "-", raised |-> FALSE, contracts |-> 0, chain_fetches |-> 0]

\* the scraper has not run: the tables are empty
InitScraperIdle ==
    /\ stocks = [t \in Tickers |-> "absent"]
    /\ market = [t \in Tickers |-> [quote |-> None, chain |-> "scenario"]]
    /\ store = {}
    /\ runRows = <<>>
    /\ call = NoScrapeCall
    /\ marked = <<>>

\* the tables as an earlier process can have left them
InitScraperVars ==
    /\ stocks \in [Tickers -> {"absent", "active", "inactive"}]
    /\ market \in {[t \in Tickers |-> IF t = "XYZ" THEN m ELSE n] :
                      m \in MarketAnswers, n \in {[quote |-> None, chain |-> "scenario"]}}
    /\ store \in SUBSET SeedRecords
    /\ runRows = <<>>
    /\ call = NoScrapeCall
    /\ marked = <<>>

\* a run is executing scrape_all_stocks
RunInFlight == runRows # <<>> /\ ~runRows[Len(runRows)].ended

\* a watchlist endpoint committed a change while a run was executing
NoteMutation ==
    IF RunInFlight THEN [runRows EXCEPT ![Len(runRows)].mutated = TRUE] ELSE runRows

\* api/endpoints/watchlist.py: add_stock_to_watchlist
AddStock(t) ==
    /\ IF stocks[t] = "absent"
       THEN /\ stocks' = [stocks EXCEPT ![t] = "active"]
            /\ runRows' = NoteMutation
       ELSE UNCHANGED <<stocks, runRows>>
    /\ ev' = Ev("add_stock")
    /\ UNCHANGED <<now, market, store, call, marked, schedVars, routerVars, apiVars>>

\* api/endpoints/watchlist.py: remove_stock_from_watchlist
RemoveStock(t) ==
    /\ IF stocks[t] = "absent"
       THEN UNCHANGED <<stocks, store, runRows>>
       ELSE /\ store' = {r \in store : r.ticker # t}
            /\ stocks' = [stocks EXCEPT ![t] = "absent"]
            /\ runRows' = NoteMutation
    /\ ev' = Ev("remove_stock")
    /\ UNCHANGED <<now, market, call, marked, schedVars, routerVars, apiVars>>

\* api/endpoints/watchlist.py: update_stock_status
UpdateStockStatus(t, status) ==
    /\ IF stocks[t] = "absent" \/ status \notin {"active", "inactive"}
       THEN UNCHANGED <<stocks, runRows>>
       ELSE /\ stocks' = [stocks EXCEPT ![t] = status]
            /\ runRows' = NoteMutation
    /\ ev' = Ev("update_status")
    /\ UNCHANGED <<now, market, store, call, marked, schedVars, routerVars, apiVars>>

\* api/endpoints/watchlist.py: bulk_stock_action on the tickers of the request.
\* 'remove' deletes the stocks that were found, with their records, in one
\* commit; 'activate' and 'deactivate' raise AttributeError on
\* StockStatus.active / StockStatus.inactive and change nothing; another
\* action, or no stock found, is answered before anything is written
BulkStockAction(action, tickers) ==
    /\ LET found == {t \in tickers : stocks[t] # "absent"}
       IN  IF action = "remove" /\ found # {}
           THEN /\ store' = {r \in store : r.ticker \notin found}
                /\ stocks' = [t \in Tickers |-> IF t \in found THEN "absent" ELSE stocks[t]]
                /\ runRows' = NoteMutation
           ELSE UNCHANGED <<stocks, store, runRows>>
    /\ ev' = Ev("bulk_action")
    /\ UNCHANGED <<now, market, call, marked, schedVars, routerVars, apiVars>>

\* YahooFinanceScraper._get_active_watchlist: the active stocks in the order
\* in which the database returns the rows (the query has no ORDER BY), or None
\* when the query expression raises
get_active_watchlist(table, database_order) ==
    IF ActiveLookupRaises THEN None
    ELSE Some(SelectSeq(database_order, LAMBDA t : table[t] = "active"))

\* scrape_all_stocks, lines 98-110: the run record is created and committed
RunOpen ==
    /\ ~RunInFlight
    /\ Len(runRows) < MaxScraperRuns
    /\ runRows' = Append(runRows, NewRun({t \in Tickers : stocks[t] = "active"}))
    /\ ev' = Ev("run_open")
    /\ UNCHANGED <<now, stocks, market, store, call, marked, schedVars, routerVars, apiVars>>

\* scrape_all_stocks, lines 112-118: the snapshot of the active stocks.  The
\* exception of _get_active_watchlist leaves scrape_all_stocks, which has no
\* handler for it: the run record stays as line 109 committed it, the progress
\* tracker stays as it was, and lines 114-240 (the initialisation of the
\* progress tracker, the loop over the stocks, the stock logs, the closing of
\* the run record) are not executed.  Whether the lookup raises is read from
\* the members of StockStatus (ActiveLookupRaises); the second branch is lines
\* 114-139 for a lookup that returns, with the stocks in the order in which
\* the database returns them.
RunSnapshot ==
    /\ RunInFlight
    /\ \E database_order \in Orders(Tickers) :
         LET active_stocks == get_active_watchlist(stocks, database_order)
         IN  IF active_stocks = None
             THEN /\ runRows' = [runRows EXCEPT ![Len(runRows)].ended = TRUE]
                  /\ progress' = progress
             ELSE /\ runRows' = [runRows EXCEPT
                                   ![Len(runRows)].total_stocks = Len(The(active_stocks))]
                  /\ progress' = StartedProgress(The(active_stocks))
    /\ ev' = Ev("run_snapshot")
    /\ UNCHANGED <<now, stocks, market, store, call, marked, routerVars, apiVars>>
    /\ UNCHANGED <<hasConfig, cfg, sched, job, instances, wrappers, runs, premiums,
                   resumed, pausedNow>>

\* the methods StockPriceService defines
StockPriceServiceMethods ==
    {"fetch_from_yahoo", "fetch_from_alpha_vantage", "fetch_from_finnhub",
     "get_live_price"}

\* float('nan'), which pandas holds in the cell of a row for which yfinance
\* delivered no value: it is not None, every comparison with it is false
\* and it is truthy.  The field nan of a row names its columns that hold it.
NaN == Ratio(0, 0)
IsNaN(row, column) == column \in row.nan

\* _process_options_dataframe, lines 409-417: the premium of a row, a
\* quotient because of the midpoint (bid + ask) / 2.  A last price that is
\* NaN is neither None nor equal to 0 and stays the premium; `bid > 0 and
\* ask > 0` is false when one of them is NaN, and `bid or ask` is bid when
\* bid is NaN or not zero.
Premium(row) ==
    IF IsNaN(row, "lastPrice") THEN NaN
    ELSE IF row.lastPrice = None \/ The(row.lastPrice) = 0
    THEN IF /\ ~IsNaN(row, "bid") /\ row.bid > 0
            /\ ~IsNaN(row, "ask") /\ row.ask > 0
         THEN Ratio(row.bid + row.ask, 2)
         ELSE IF IsNaN(row, "bid") THEN NaN
         ELSE IF row.bid # 0 THEN Ratio(row.bid, 1)
         ELSE IF IsNaN(row, "ask") THEN NaN
         ELSE Ratio(row.ask, 1)
    ELSE Ratio(The(row.lastPrice), 1)

\* _process_options_dataframe, line 420: `premium is None or premium <= 0`,
\* which is false for NaN
SkippedPremium(premium) == premium # NaN /\ premium[1] <= 0

\* _process_options_dataframe lines 424-442 with GreeksCalculator.calculate_greeks:
\* the Greeks of a row are not null.  An implied volatility that is NaN
\* passes `implied_volatility <= 0` in line 425 and in greeks.py:73.
GreeksComputed(stock_price, row, days_to_expiry) ==
    /\ \/ IsNaN(row, "impliedVolatility")
       \/ row.impliedVolatility # None /\ The(row.impliedVolatility) > 0
    /\ stock_price > 0 /\ row.strike > 0
    /\ days_to_expiry > 0

\* YahooFinanceScraper._process_options_dataframe: the records it adds
process_options_dataframe(ticker, rows, stock_price, expiration_date, days_to_expiry, run) ==
    LET kept == SelectSeq(rows, LAMBDA row : ~SkippedPremium(Premium(row)))
    IN  [k \in 1 .. Len(kept) |->
            PremiumRecord(ticker, expiration_date, days_to_expiry,
                          IF days_to_expiry > 0 THEN "active" ELSE "expired",
                          GreeksComputed(stock_price, kept[k], days_to_expiry), run)]

\* _scrape_stock, lines 328-370: one expiration; GreeksCalculator.
\* calculate_days_to_expiry is max(0, expiration - collection date)
ExpirationRecords(ticker, e, stock_price, today, run) ==
    IF e.raises THEN <<>>
    ELSE LET days_to_expiry == Max(0, e.date - today)
         IN  IF days_to_expiry <= 0 THEN <<>>
             ELSE process_options_dataframe(ticker, e.calls, stock_price, e.date,
                                            days_to_expiry, run)
                  \o process_options_dataframe(ticker, e.puts, stock_price, e.date,
                                               days_to_expiry, run)

RECURSIVE ChainRecords(_, _, _, _, _)
ChainRecords(ticker, expirations, stock_price, today, run) ==
    IF expirations = <<>> THEN <<>>
    ELSE ExpirationRecords(ticker, Head(expirations), stock_price, today, run)
         \o ChainRecords(ticker, Tail(expirations), stock_price, today, run)

\* the outcome of _scrape_stock when it raises
ScrapeRaised == [raised |-> TRUE, contracts |-> 0, chain_fetches |-> 0, records |-> <<>>]

\* YahooFinanceScraper._scrape_stock.  Line 276 calls price_service.get_price,
\* which StockPriceService does not define: the AttributeError is caught at
\* line 290 and raised again as ValueError, before any request for the
\* expirations or a chain is made.
scrape_stock(ticker, m, today, max_exp, run) ==
    IF "get_price" \notin StockPriceServiceMethods THEN ScrapeRaised
    ELSE IF m.quote = None \/ The(m.quote) <= 0 THEN ScrapeRaised
    ELSE IF Chain(m.chain) = <<>> THEN ScrapeRaised
    ELSE LET expirations == SubSeq(Chain(m.chain), 1, Min(max_exp, Len(Chain(m.chain))))
             records == ChainRecords(ticker, expirations, The(m.quote), today, run)
         IN  [raised |-> FALSE, contracts |-> Len(records),
              chain_fetches |-> Len(expirations), records |-> records]

\* a call of _scrape_stock for a stock of the table; line 373 commits the
\* records it added
ScrapeStock(t) ==
    /\ stocks[t] # "absent"
    /\ LET out == scrape_stock(t, market[t], Date(now), max_expirations, 0)
       IN  /\ store' = store \cup {out.records[k] : k \in 1 .. Len(out.records)}
           /\ call' = [ticker |-> t, raised |-> out.raised, contracts |-> out.contracts,
                       chain_fetches |-> out.chain_fetches]
    /\ ev' = Ev("scrape_stock")
    /\ UNCHANGED <<now, stocks, market, runRows, marked, schedVars, routerVars, apiVars>>

\* a marker that looks at the expiration date only
mark_expired_contracts_any_status(table, today) ==
    [store |-> {IF r.expiration_date < today
                THEN [r EXCEPT !.contract_status = "expired"] ELSE r : r \in table},
     result |-> Cardinality({r \in table : r.expiration_date < today})]

\* a marker that also brings days_to_expiry of the rows it marks down to 0
mark_expired_contracts_zeroing_days(table, today) ==
    [store |-> {IF r.expiration_date < today /\ r.contract_status = "active"
                THEN [r EXCEPT !.contract_status = "expired", !.days_to_expiry = 0]
                ELSE r : r \in table},
     result |-> Cardinality({r \in table : /\ r.expiration_date < today
                                           /\ r.contract_status = "active"})]

\* YahooFinanceScraper.mark_expired_contracts: the table it leaves and the
\* number of rows it updated
mark_expired_contracts(table, today) ==
    [store |-> {IF r.expiration_date < today /\ r.contract_status = "active"
                THEN [r EXCEPT !.contract_status = "expired"] ELSE r : r \in table},
     result |-> Cardinality({r \in table : /\ r.expiration_date < today
                                           /\ r.contract_status = "active"})]

\* SchedulerService._expiry_marker_job_wrapper
MarkExpired ==
    /\ LET out == mark_expired_contracts(store, Date(now))
       IN  /\ store' = out.store
           /\ marked' = IF ev.op = "mark_expired"
                        THEN <<marked[Len(marked)], out.result>>
                        ELSE <<out.result>>
    /\ ev' = Ev("mark_expired")
    /\ UNCHANGED <<now, stocks, market, runRows, call, schedVars, routerVars, apiVars>>

\* midnight passes
NextDay ==
    /\ Date(now) < StartDay + MaxDays
    /\ now' = now + 24 * 60
    /\ ev' = Ev("next_day")
    /\ UNCHANGED <<schedVars, routerVars, scraperVars, apiVars>>

----------------------------------------------------------------------------
(* api/endpoints/scheduler.py: PUT /api/scheduler/config *)

\* the bodies the endpoint is called with; an absent field is None, and a time
\* of day is the pair of numbers its "HH:MM" text holds
PutIntervals      == {None, Some(0), Some(2 * TickMinutes), Some(2000)}
PutStarts         == {None, Some(<<16, 0>>)}
PutEnds           == {None, Some(<<9, 0>>), Some(<<17, 0>>)}
PutTimezones      == {None, Some("UTC"), Some("Invalid/Timezone")}
PutDelays         == {None, Some(20), Some(500)}
PutMaxExpirations == {None, Some(0), Some(50), Some(150)}

PutFields == {"polling_interval_minutes", "market_hours_start", "market_hours_end",
              "timezone", "stock_delay_seconds", "max_expirations"}

\* the groups of fields a body sets together
PutShapes ==
    {{"polling_interval_minutes", "market_hours_start", "market_hours_end"},
     {"polling_interval_minutes", "timezone"},
     {"stock_delay_seconds", "max_expirations"}}

PutRequests ==
    {r \in [polling_interval_minutes : PutIntervals,
            market_hours_start : PutStarts,
            market_hours_end : PutEnds,
            timezone : PutTimezones,
            stock_delay_seconds : PutDelays,
            max_expirations : PutMaxExpirations] :
        \E shape \in PutShapes : {f \in PutFields : r[f] # None} \subseteq shape}

InRange(arg, lo, hi) == arg = None \/ (lo <= The(arg) /\ The(arg) <= hi)

\* SchedulerConfigRequest: Field(ge=, le=) of the three integer fields; a body
\* that fails them never reaches the endpoint function
SchedulerConfigRequestValid(r) ==
    /\ InRange(r.polling_interval_minutes, 1, 1440)
    /\ InRange(r.stock_delay_seconds, 0, 300)
    /\ InRange(r.max_expirations, 1, 100)

\* main.py validation_exception_handler: the answer to a RequestValidationError
validation_exception_handler == [status |-> 400, detail |-> <<>>]

\* utils/security.py validate_integer_range: TRUE when no HTTPException is raised
validate_integer_range(value, min_value, max_value) ==
    ~(value < min_value \/ value > max_value)

\* h, m = map(int, text.split(':')); time(hour=h, minute=m): the minute of the
\* day, or None where time() raises ValueError
ParseTime(text) ==
    IF text[1] \in 0 .. 23 /\ text[2] \in 0 .. 59
    THEN Some(text[1] * 60 + text[2])
    ELSE None

\* the names the module api/endpoints/scheduler.py imports from models.schemas
SchedulerEndpointImports ==
    {"SchedulerConfig", "SchedulerConfigRequest", "SuccessResponse", "SchedulerStatus",
     "RateLimitCalculation", "ScraperProgress", "ScraperRunHistoryResponse",
     "ScraperRunSchema", "StockScrapeLogSchema"}

\* line 144 reads the name MonitoringStatus: a NameError unless it is imported
MonitoringStatusRaises == "MonitoringStatus" \notin SchedulerEndpointImports

\* the handler of lines 160-165 answers every exception with 500; the detail
\* ends with str(e), the phrases of the exception
ExceptException(phrases) ==
    [status |-> 500, detail |-> <<"Failed to update scheduler configuration">> \o phrases]

\* update_scheduler_config, lines 83-158, for a body that passed the schema:
\* the answer, and the row and the job it leaves
update_scheduler_config(r, has, c0, s, j, t) ==
    LET raised(phrases) ==
            [status |-> ExceptException(phrases).status,
             detail |-> ExceptException(phrases).detail, cfg |-> c0, job |-> j]
        ints_ok ==
            /\ r.polling_interval_minutes # None =>
                  validate_integer_range(The(r.polling_interval_minutes), 1, 1440)
            /\ r.stock_delay_seconds # None =>
                  validate_integer_range(The(r.stock_delay_seconds), 0, 300)
            /\ r.max_expirations # None =>
                  validate_integer_range(The(r.max_expirations), 1, 100)
        start == IF r.market_hours_start = None THEN Some(c0.market_hours_start)
                 ELSE ParseTime(The(r.market_hours_start))
        end   == IF r.market_hours_end = None THEN Some(c0.market_hours_end)
                 ELSE ParseTime(The(r.market_hours_end))
    IN  IF ~ints_ok
        THEN raised(<<"400", "must be between">>)
        ELSE IF r.timezone # None /\ The(r.timezone) \notin AllTimezones
        THEN raised(<<"400", "Invalid timezone">>)
        ELSE IF ~has
        THEN raised(<<"404", "Scheduler configuration not found">>)
        ELSE IF start = None \/ end = None
        THEN raised(<<"ValueError">>)
        ELSE LET committed ==
                     [c0 EXCEPT
                        !.polling_interval_minutes = OrElse(r.polling_interval_minutes, @),
                        !.market_hours_start = The(start),
                        !.market_hours_end = The(end),
                        !.timezone = OrElse(r.timezone, @),
                        !.stock_delay_seconds = OrElse(r.stock_delay_seconds, @),
                        !.max_expirations = OrElse(r.max_expirations, @)]
                 \* lines 125-133: the running scheduler is told the interval, and
                 \* what update_config raises is logged and dropped
                 svc == IF r.polling_interval_minutes # None /\ s.scheduler
                        THEN update_config(committed, j, s, r.polling_interval_minutes,
                                           None, None, None, t)
                        ELSE [raised |-> FALSE, job |-> j, cfg |-> committed]
             IN  IF MonitoringStatusRaises
                 THEN [status |-> ExceptException(<<"NameError">>).status,
                       detail |-> ExceptException(<<"NameError">>).detail,
                       cfg |-> svc.cfg, job |-> svc.job]
                 ELSE [status |-> 200, detail |-> <<>>, cfg |-> svc.cfg, job |-> svc.job]

NoRequest == [polling_interval_minutes |-> None, market_hours_start |-> None,
              market_hours_end |-> None, timezone |-> None,
              stock_delay_seconds |-> None, max_expirations |-> None]
NoPut == [request |-> NoRequest, status |-> 0, detail |-> <<>>]

\* PUT /api/scheduler/config with the body r
UpdateSchedulerConfig(r) ==
    /\ ~sched.initializing
    /\ IF SchedulerConfigRequestValid(r)
       THEN LET out == update_scheduler_config(r, hasConfig, cfg, sched, job, now)
            IN  /\ cfg' = out.cfg
                /\ job' = out.job
                /\ response' = [request |-> r, status |-> out.status, detail |-> out.detail]
       ELSE /\ response' = [request |-> r, status |-> validation_exception_handler.status,
                            detail |-> validation_exception_handler.detail]
            /\ UNCHANGED <<cfg, job>>
    /\ ev' = Ev("update_scheduler_config")
    /\ UNCHANGED <<now, hasConfig, sched, instances, wrappers, runs, progress,
                   premiums, resumed, pausedNow, routerVars, scraperVars,
                   quota, queryCall, greeksCall, price_cache,
                   priceCall, rateCall, chainCall>>

----------------------------------------------------------------------------
(* models/scraper_schedule.py: the daily API-query counter *)

\* dt_time(7, 30, 0), as the minute of the day
reset_time == 450

\* datetime.now(est_tz): the date and the time of day in America/New_York
EstDate(t) == (t + UtcOffset("America/New_York", t)) \div (24 * 60)
EstTime(t) == LocalTime(t, "America/New_York")

\* ScraperSchedule.check_and_reset_daily_counter at time t; reset is what the
\* method returns
check_and_reset_daily_counter(q, t) ==
    LET current_time_est == EstTime(t)
        current_date_est == EstDate(t)
        zeroed == [daily_api_queries |-> 0, last_reset_date |-> Some(t), reset |-> TRUE]
        kept   == [q EXCEPT !.reset = FALSE]
    IN  IF q.last_reset_date = None
        THEN zeroed
        ELSE LET last_reset_est == The(q.last_reset_date)
                 last_reset_date_est == EstDate(last_reset_est)
             IN  IF current_date_est > last_reset_date_est
                 THEN IF current_time_est >= reset_time
                      THEN zeroed
                      ELSE IF last_reset_date_est < current_date_est
                      THEN zeroed
                      ELSE kept
                 ELSE IF current_date_est = last_reset_date_est
                 THEN IF EstTime(last_reset_est) < reset_time
                         /\ current_time_est >= reset_time
                      THEN zeroed
                      ELSE kept
                 ELSE kept

\* ScraperSchedule.increment_query_count
increment_query_count(q, t, count) ==
    [check_and_reset_daily_counter(q, t) EXCEPT !.daily_api_queries = @ + count]

\* a call of check_and_reset_daily_counter, committed
CheckAndResetDailyCounter ==
    /\ quota' = check_and_reset_daily_counter(quota, now)
    /\ ev' = Ev("check_and_reset_daily_counter")
    /\ UNCHANGED <<now, schedVars, routerVars, scraperVars,
                   response, queryCall, greeksCall, price_cache,
                   priceCall, rateCall, chainCall>>

\* a call of increment_query_count, committed
IncrementQueryCount(count) ==
    /\ quota.daily_api_queries + count <= MaxQueries
    /\ quota' = increment_query_count(quota, now, count)
    /\ ev' = Ev("increment_query_count")
    /\ UNCHANGED <<now, schedVars, routerVars, scraperVars,
                   response, queryCall, greeksCall, price_cache,
                   priceCall, rateCall, chainCall>>

----------------------------------------------------------------------------
(* Python floats: binary64 arithmetic, rounded to nearest, ties to even.  A  *)
(* double that is not negative is [m, e], the value m * 2^e, with m a        *)
(* natural number of up to 53 bits written as a sequence of digits of 15     *)
(* bits, the least significant first                                         *)

LimbBits == 15
LimbBase == 2 ^ LimbBits

\* the bits of the significand of a binary64
DoublePrecision == 53

RECURSIVE BigOf(_)
BigOf(n) == IF n = 0 THEN <<>> ELSE <<n % LimbBase>> \o BigOf(n \div LimbBase)

\* the natural number as an integer, for a number that fits one
RECURSIVE BigInt(_)
BigInt(a) == IF a = <<>> THEN 0 ELSE Head(a) + LimbBase * BigInt(Tail(a))

RECURSIVE BigTrim(_)
BigTrim(a) ==
    IF a # <<>> /\ a[Len(a)] = 0 THEN BigTrim(SubSeq(a, 1, Len(a) - 1)) ELSE a

RECURSIVE BigAddCarry(_, _, _)
BigAddCarry(a, b, carry) ==
    IF a = <<>> /\ b = <<>> THEN BigOf(carry)
    ELSE LET sum == (IF a = <<>> THEN 0 ELSE Head(a))
                    + (IF b = <<>> THEN 0 ELSE Head(b)) + carry
         IN  <<sum % LimbBase>>
             \o BigAddCarry(IF a = <<>> THEN a ELSE Tail(a),
                            IF b = <<>> THEN b ELSE Tail(b), sum \div LimbBase)

BigAdd(a, b) == BigAddCarry(a, b, 0)

\* a - b for a >= b
RECURSIVE BigSubBorrow(_, _, _)
BigSubBorrow(a, b, borrow) ==
    IF a = <<>> THEN <<>>
    ELSE LET d == Head(a) - (IF b = <<>> THEN 0 ELSE Head(b)) - borrow
         IN  <<IF d < 0 THEN d + LimbBase ELSE d>>
             \o BigSubBorrow(Tail(a), IF b = <<>> THEN b ELSE Tail(b),
                             IF d < 0 THEN 1 ELSE 0)

BigSub(a, b) == BigTrim(BigSubBorrow(a, b, 0))

RECURSIVE BigCmpFrom(_, _, _)
BigCmpFrom(a, b, i) ==
    IF i = 0 THEN 0
    ELSE IF a[i] # b[i] THEN (IF a[i] < b[i] THEN 0 - 1 ELSE 1)
    ELSE BigCmpFrom(a, b, i - 1)

\* -1, 0 or 1 as a is less than, equal to or greater than b
BigCmp(a, b) ==
    IF Len(a) # Len(b) THEN (IF Len(a) < Len(b) THEN 0 - 1 ELSE 1)
    ELSE BigCmpFrom(a, b, Len(a))

\* a * c + carry for c and carry below LimbBase
RECURSIVE BigMulSmallCarry(_, _, _)
BigMulSmallCarry(a, c, carry) ==
    IF a = <<>> THEN BigOf(carry)
    ELSE LET p == Head(a) * c + carry
         IN  <<p % LimbBase>> \o BigMulSmallCarry(Tail(a), c, p \div LimbBase)

BigMulSmall(a, c) == BigTrim(BigMulSmallCarry(a, c, 0))

RECURSIVE BigMul(_, _)
BigMul(a, b) ==
    IF a = <<>> \/ b = <<>> THEN <<>>
    ELSE LET rest == BigMul(a, Tail(b))
         IN  BigAdd(BigMulSmall(a, Head(b)), IF rest = <<>> THEN rest ELSE <<0>> \o rest)

\* a * 2^k
RECURSIVE BigShl(_, _)
BigShl(a, k) ==
    IF a = <<>> \/ k = 0 THEN a
    ELSE IF k >= LimbBits THEN <<0>> \o BigShl(a, k - LimbBits)
    ELSE BigMulSmall(a, 2 ^ k)

RECURSIVE BitsOf(_)
BitsOf(n) == IF n = 0 THEN 0 ELSE 1 + BitsOf(n \div 2)

\* the number of bits of a, and its bit i (bit 0 is the least significant)
BigBits(a) == IF a = <<>> THEN 0 ELSE LimbBits * (Len(a) - 1) + BitsOf(a[Len(a)])
BigBit(a, i) == (a[(i \div LimbBits) + 1] \div (2 ^ (i % LimbBits))) % 2

\* the greatest digit c in lo .. hi with d * c <= r, where d * lo <= r
RECURSIVE BigDigit(_, _, _, _)
BigDigit(r, d, lo, hi) ==
    IF lo = hi THEN lo
    ELSE LET mid == (lo + hi + 1) \div 2
         IN  IF BigCmp(BigMulSmall(d, mid), r) <= 0 THEN BigDigit(r, d, mid, hi)
             ELSE BigDigit(r, d, lo, mid - 1)

\* long division, digit by digit: the digits i .. 1 of n are still to bring
\* down
RECURSIVE BigDivFrom(_, _, _, _, _)
BigDivFrom(n, d, i, q, r) ==
    IF i = 0 THEN [q |-> BigTrim(q), r |-> r]
    ELSE LET r2 == BigTrim(<<n[i]>> \o r)
             c == BigDigit(r2, d, 0, LimbBase - 1)
             r3 == BigSub(r2, BigMulSmall(d, c))
             q2 == <<c>> \o q
         IN  IF Len(q2) + Len(r3) >= 0 THEN BigDivFrom(n, d, i - 1, q2, r3)
             ELSE [q |-> q2, r |-> r3]

\* the quotient and the remainder of n by d > 0
BigDivMod(n, d) == BigDivFrom(n, d, Len(n), <<>>, <<>>)

\* the quotient n * 2^s / d with its remainder and the divisor the remainder
\* is of
ScaledDivMod(n, d, s) ==
    IF s >= 0 THEN [qr |-> BigDivMod(BigShl(n, s), d), d |-> d]
    ELSE [qr |-> BigDivMod(n, BigShl(d, 0 - s)), d |-> BigShl(d, 0 - s)]

\* the scale at which the quotient has 53 bits: s0 or one less
DoubleScale(n, d, s0) ==
    IF BigBits(ScaledDivMod(n, d, s0).qr.q) > DoublePrecision THEN s0 - 1 ELSE s0

\* the quotient is rounded up when the remainder is more than half the
\* divisor, and on a tie when the quotient is odd
RoundsUp(half, q) == half > 0 \/ (half = 0 /\ BigBit(q, 0) = 1)

DoubleRounded(at, e) ==
    [m |-> IF RoundsUp(BigCmp(BigMulSmall(at.qr.r, 2), at.d), at.qr.q)
           THEN BigAdd(at.qr.q, BigOf(1)) ELSE at.qr.q,
     e |-> e]

NearestAt(n, d, e, s) == DoubleRounded(ScaledDivMod(n, d, s), e - s)

\* the double nearest to (n / d) * 2^e for natural numbers n and d > 0: the
\* quotient is scaled to 53 bits and rounded on the remainder, a tie to the
\* even significand
NearestDouble(n, d, e) ==
    IF n = <<>> THEN [m |-> <<>>, e |-> 0]
    ELSE NearestAt(n, d, e, DoubleScale(n, d, DoublePrecision - (BigBits(n) - BigBits(d))))

\* float(k) for a small integer k >= 0
DoubleOf(k) == [m |-> BigOf(k), e |-> 0]

\* x / y and x * y
DoubleDivide(x, y) == NearestDouble(x.m, y.m, x.e - y.e)
DoubleMultiply(x, y) == NearestDouble(BigMul(x.m, y.m), BigOf(1), x.e + y.e)

\* -1, 0 or 1 as x is less than, equal to or greater than y
DoubleCmp(x, y) ==
    LET e == IF x.e < y.e THEN x.e ELSE y.e
    IN  BigCmp(BigShl(x.m, x.e - e), BigShl(y.m, y.e - e))

\* max(x, y): the first argument unless the second is greater
DoubleMax(x, y) == IF DoubleCmp(y, x) > 0 THEN y ELSE x

\* the integer nearest to a quotient with remainder, the even one on a tie
HalfEven(half, low) ==
    IF half < 0 THEN low
    ELSE IF half > 0 THEN low + 1
    ELSE IF low % 2 = 0 THEN low ELSE low + 1

RoundedQuotient(qr, unit) ==
    HalfEven(BigCmp(BigMulSmall(qr.r, 2), unit), BigInt(qr.q))

\* round(x, digits) on a float that is not negative, in units of 1/scale
\* (scale is 10 ** digits): the multiple nearest to the value of the float,
\* which is in general not the value of the quotient it was computed from;
\* when the float is exactly half way, the even neighbour
RoundHalfEven(x, scale) ==
    IF x.e >= 0 THEN BigInt(BigShl(BigMulSmall(x.m, scale), x.e))
    ELSE RoundedQuotient(BigDivMod(BigMulSmall(x.m, scale), BigShl(BigOf(1), 0 - x.e)),
                         BigShl(BigOf(1), 0 - x.e))

\* the query parameters of GET /api/scheduler/rate-calculation
RateIntervals == {None, Some(0), Some(60)}
RateDelays == {None, Some(0)}
RateMaxExpirations == {None, Some(4)}

\* the answers of the endpoint that are not a calculation
RateError(status) ==
    [status |-> status, watchlist_size |-> 0, requests_per_stock |-> 0,
     requests_per_cycle |-> 0, requests_per_minute |-> Ratio(0, 1),
     requests_per_hour |-> Ratio(0, 1), requests_per_day |-> Ratio(0, 1),
     within_minute_limit |-> FALSE, within_hour_limit |-> FALSE,
     within_day_limit |-> FALSE, interval |-> 0, max_exp |-> 0]

\* api/endpoints/scheduler.py calculate_rate_limits, lines 233-336.  The
\* count of the active stocks (line 264) reads StockStatus.active, so the
\* function is left through `except Exception` before anything is calculated.
\* The quotients are kept exact; the warnings and the rounding of the
\* response fields (lines 285-321) are left out.  counted says whether the
\* counter is evaluated (line 308).
calculate_rate_limits(has, c, stock_table, polling_interval_minutes, stock_delay_seconds, max_expirations_arg) ==
    IF ~has THEN [answer |-> RateError(404), counted |-> FALSE]
    ELSE IF ActiveLookupRaises THEN [answer |-> RateError(500), counted |-> FALSE]
    ELSE LET interval == IF polling_interval_minutes # None
                         THEN The(polling_interval_minutes)
                         ELSE c.polling_interval_minutes
             delay == IF stock_delay_seconds # None THEN The(stock_delay_seconds)
                      ELSE c.stock_delay_seconds
             max_exp == IF max_expirations_arg # None THEN The(max_expirations_arg)
                        ELSE c.max_expirations
             watchlist_size == Cardinality({t \in DOMAIN stock_table :
                                              stock_table[t] = "active"})
             requests_per_stock == 2 + max_exp
             requests_per_cycle == watchlist_size * requests_per_stock
             requests_per_minute ==
                 IF watchlist_size * delay > 0
                 THEN Ratio(requests_per_cycle * 60, watchlist_size * delay)
                 ELSE Ratio(requests_per_cycle, 1)
             requests_per_hour ==
                 IF interval > 0 THEN Ratio(requests_per_cycle * 60, interval)
                 ELSE Ratio(0, 1)
             cycles_per_day == IF interval > 0 THEN (24 * 60) \div interval ELSE 0
             requests_per_day == requests_per_cycle * cycles_per_day
         IN  [answer |->
                [status |-> 200, watchlist_size |-> watchlist_size,
                 requests_per_stock |-> requests_per_stock,
                 requests_per_cycle |-> requests_per_cycle,
                 requests_per_minute |-> requests_per_minute,
                 requests_per_hour |-> requests_per_hour,
                 requests_per_day |-> Ratio(requests_per_day, 1),
                 within_minute_limit |-> RatioLeq(requests_per_minute, 60),
                 within_hour_limit |-> RatioLeq(requests_per_hour, 360),
                 within_day_limit |-> requests_per_day <= 8000,
                 interval |-> interval, max_exp |-> max_exp],
              counted |-> TRUE]

NoRateCall ==
    [kind |-> "-", watchlist_size |-> 0, polling_interval_minutes |-> None,
     stock_delay_seconds |-> None, max_expirations |-> None,
     answer |-> RateError(0)]

\* a request GET /api/scheduler/rate-calculation
CalculateRateLimits(polling_interval_minutes, stock_delay_seconds, max_expirations_arg) ==
    /\ LET out == calculate_rate_limits(hasConfig, cfg, stocks, polling_interval_minutes,
                                        stock_delay_seconds, max_expirations_arg)
       IN  /\ rateCall' = [kind |-> "endpoint",
                           watchlist_size |->
                               Cardinality({t \in Tickers : stocks[t] = "active"}),
                           polling_interval_minutes |-> polling_interval_minutes,
                           stock_delay_seconds |-> stock_delay_seconds,
                           max_expirations |-> max_expirations_arg,
                           answer |-> out.answer]
           /\ IF out.counted
              THEN /\ ev' = Ev("calculate_rate_limits")
                   /\ quota' = check_and_reset_daily_counter(quota, now)
              ELSE /\ ev' = Ev("calculate_rate_limits_error")
                   /\ quota' = quota
    /\ UNCHANGED <<now, schedVars, routerVars, scraperVars,
                   response, queryCall, greeksCall, price_cache,
                   priceCall, chainCall>>

\* values the tests call their copy of the calculation with, and values
\* whose quotients lie half way between two hundredths (9 / 40, 13 / 40)
TestStocks == {0, 1, 5, 10, 40}
TestIntervals == {0, 7, 40, 60}
TestDelays == {1, 10}
TestMaxExpirations == {4, 8, 12}

\* the dictionary the tests' copy returns (lines 50-56), in hundredths
test_rounded(requests_per_cycle, requests_per_minute, requests_per_hour, cycle_duration_minutes) ==
    [requests_per_cycle |-> requests_per_cycle,
     requests_per_minute |-> RoundHalfEven(requests_per_minute, 100),
     requests_per_hour |-> RoundHalfEven(requests_per_hour, 100),
     requests_per_day |->
         RoundHalfEven(DoubleMultiply(requests_per_hour, DoubleOf(24)), 100),
     cycle_duration_minutes |-> RoundHalfEven(cycle_duration_minutes, 100)]

\* the rates of the tests' copy (lines 44-46), as floats
test_rates(requests_per_cycle, cycle_duration_minutes, cycles_per_hour, polling_interval_minutes) ==
    test_rounded(requests_per_cycle,
                 DoubleDivide(DoubleOf(requests_per_cycle),
                              DoubleMax(cycle_duration_minutes,
                                        DoubleOf(polling_interval_minutes))),
                 DoubleMultiply(cycles_per_hour, DoubleOf(requests_per_cycle)),
                 cycle_duration_minutes)

\* tests/test_rate_calculations.py, TestRateLimitCalculations.
\* calculate_rate_limits: the copy of the calculation the tests exercise,
\* in the floats of lines 42-48.  The rounded values are in hundredths.
test_calculate_rate_limits(num_stocks, polling_interval_minutes, stock_delay_seconds, max_expirations_arg) ==
    IF num_stocks = 0 \/ polling_interval_minutes = 0
    THEN [requests_per_cycle |-> 0, requests_per_minute |-> 0,
          requests_per_hour |-> 0, requests_per_day |-> 0]
    ELSE test_rates(num_stocks * (1 + max_expirations_arg),
                    DoubleDivide(DoubleOf(num_stocks * stock_delay_seconds), DoubleOf(60)),
                    DoubleDivide(DoubleOf(60), DoubleOf(polling_interval_minutes)),
                    polling_interval_minutes)

\* a call of the tests' copy of the calculation: a unit test, which runs
\* without a schedule row and without stocks and calls the method once
TestCalculateRateLimits(num_stocks, polling_interval_minutes, stock_delay_seconds, max_expirations_arg) ==
    /\ ~hasConfig
    /\ \A t \in Tickers : stocks[t] = "absent"
    /\ rateCall = NoRateCall
    /\ LET out == test_calculate_rate_limits(num_stocks, polling_interval_minutes,
                                             stock_delay_seconds, max_expirations_arg)
       IN  rateCall' = [kind |-> "test",
                        watchlist_size |-> num_stocks,
                        polling_interval_minutes |-> Some(polling_interval_minutes),
                        stock_delay_seconds |-> Some(stock_delay_seconds),
                        max_expirations |-> Some(max_expirations_arg),
                        answer |->
                            [RateError(200) EXCEPT
                                !.watchlist_size = num_stocks,
                                !.requests_per_cycle = out.requests_per_cycle,
                                !.requests_per_minute = Ratio(out.requests_per_minute, 100),
                                !.requests_per_hour = Ratio(out.requests_per_hour, 100),
                                !.requests_per_day = Ratio(out.requests_per_day, 100),
                                !.interval = polling_interval_minutes,
                                !.max_exp = max_expirations_arg]]
    /\ ev' = Ev("test_calculate_rate_limits")
    /\ UNCHANGED <<now, schedVars, routerVars, scraperVars,
                   response, quota, queryCall, greeksCall, price_cache,
                   priceCall, chainCall>>

\* the clock advances between two evaluations
QuotaTick ==
    /\ now + QuotaStep <= StartNow + MaxDays * 24 * 60
    /\ now' = now + QuotaStep
    /\ ev' = Ev("tick")
    /\ UNCHANGED <<schedVars, routerVars, scraperVars, apiVars>>

----------------------------------------------------------------------------
(* services/query_service.py: QueryService *)

\* the strikes of the rows, with the two data sets of the specification
StrikeGrid      == {80, 85, 90, 95, 100, 105, 110, 115, 120}
RangeScenario   == {85, 90, 95, 105, 115}
NearestScenario == {80, 90, 95, 105, 110, 120}

\* one call of _scrape_stock gives all its rows the same collection_timestamp
\* and the same stock_price_at_collection
Collection(age_days, price) ==
    [collection_timestamp |-> StartNow - age_days * 24 * 60,
     stock_price_at_collection |-> price]
NewerCollection == Collection(1, 100)
OlderCollection == Collection(2, 90)
StaleCollection == Collection(40, 100)

GreekNames == {"delta", "gamma", "theta", "vega"}
AllGreeks(v) == [g \in GreekNames |-> v]

\* a HistoricalPremiumRecord row as the queries read it
QueryRow(ticker, option_type, strike_price, c, premium, days_to_expiry, greek) ==
    [ticker |-> ticker, option_type |-> option_type, strike_price |-> strike_price,
     collection_timestamp |-> c.collection_timestamp,
     stock_price_at_collection |-> c.stock_price_at_collection,
     premium |-> premium, days_to_expiry |-> days_to_expiry, greek |-> greek]

\* the row of the newer collection at strike k: a call of XYZ, 30 days out
MainRow(k) ==
    QueryRow("XYZ", "call", k, NewerCollection, k \div 5, 30,
             IF k \in {85, 110} THEN AllGreeks(None) ELSE AllGreeks(Some(k - 60)))

\* further rows: a second record of a strike with one Greek only, a row of
\* another stock, a put, a row older than the lookback window and a row of
\* another duration
ExtraRows ==
    {QueryRow("XYZ", "call", 95, OlderCollection, 30, 31,
              [AllGreeks(None) EXCEPT !["delta"] = Some(10)]),
     QueryRow("ABC", "call", 110, NewerCollection, 7, 30, AllGreeks(Some(5))),
     QueryRow("XYZ", "put", 100, NewerCollection, 9, 30, AllGreeks(Some(0 - 40))),
     QueryRow("XYZ", "call", 105, StaleCollection, 11, 30, AllGreeks(Some(50))),
     QueryRow("XYZ", "call", 90, OlderCollection, 13, 60, AllGreeks(None))}

StrikeSets ==
    {RangeScenario, NearestScenario}
    \cup {S \in SUBSET StrikeGrid : Cardinality(S) <= MaxStrikes}

\* the tables the queries run on
QueryTables ==
    {{MainRow(k) : k \in S} \cup E : S \in StrikeSets, E \in SUBSET ExtraRows}

\* PremiumQueryRequest: the requests of the three strike modes
QueryRequest(ticker, mode, strike_price, percent, above, below, duration_days) ==
    [ticker |-> ticker, option_type |-> "call", strike_mode |-> mode,
     strike_price |-> strike_price, strike_range_percent |-> percent,
     nearest_count_above |-> above, nearest_count_below |-> below,
     duration_days |-> duration_days, duration_tolerance_days |-> 3,
     lookback_days |-> 30]

QueryRequests ==
    {QueryRequest(t, "exact", Some(k), None, None, None, d) :
        t \in {"XYZ", "xyz", "NOPE"}, k \in {95, 100}, d \in {None, Some(30)}}
    \cup {QueryRequest(t, "percentage_range", Some(100), Some(p), None, None, d) :
        t \in {"XYZ", "NOPE"}, p \in {5, 10}, d \in {None, Some(30)}}
    \cup {QueryRequest(t, "nearest", None, None, n[1], n[2], d) :
        t \in {"XYZ", "NOPE"},
        n \in {<<Some(2), Some(1)>>, <<Some(1), None>>, <<None, Some(1)>>},
        d \in {None, Some(30)}}

\* sorted(...) of a set of numbers
RECURSIVE Sorted(_)
Sorted(S) ==
    IF S = {} THEN <<>>
    ELSE LET m == CHOOSE x \in S : \A y \in S : x <= y
         IN  <<m>> \o Sorted(S \ {m})

Reversed(seq) == [k \in 1 .. Len(seq) |-> seq[Len(seq) + 1 - k]]
FirstN(seq, n) == SubSeq(seq, 1, Min(n, Len(seq)))
Elements(seq) == {seq[k] : k \in 1 .. Len(seq)}

\* query_premium_statistics, lines 57-82: the base query at time t
BaseQuery(table, request, t) ==
    {r \in table :
        /\ r.ticker = Upper(request.ticker)
        /\ r.option_type = request.option_type
        /\ r.collection_timestamp >= t - request.lookback_days * 24 * 60
        /\ r.collection_timestamp <= t
        /\ request.duration_days # None =>
              /\ r.days_to_expiry
                    >= The(request.duration_days) - request.duration_tolerance_days
              /\ r.days_to_expiry
                    <= The(request.duration_days) + request.duration_tolerance_days}

\* QueryService._get_exact_strikes
get_exact_strikes(strike_price) == <<strike_price>>

\* the distinct strikes of the whole table between
\* target * (1 - percent/100) and target * (1 + percent/100)
StrikesBetween(table, target_strike, range_percent) ==
    {r.strike_price : r \in
        {x \in table :
            /\ x.strike_price * 100 >= target_strike * (100 - range_percent)
            /\ x.strike_price * 100 <= target_strike * (100 + range_percent)}}

\* QueryService._get_range_strikes: the strikes in the range, in the order in
\* which the database returns the distinct strikes
get_range_strikes(table, target_strike, range_percent, database_order) ==
    SelectSeq(database_order,
              LAMBDA k : k \in StrikesBetween(table, target_strike, range_percent))

\* QueryService._get_nearest_strikes
get_nearest_strikes(base, count_above, count_below) ==
    IF base = {} THEN <<>>
    ELSE LET recent == CHOOSE r \in base :
                          \A o \in base : o.collection_timestamp <= r.collection_timestamp
             current_price == recent.stock_price_at_collection
             all_strikes == Sorted({r.strike_price : r \in base})
             above(s) == s > current_price
             below(s) == s < current_price
             strikes_above ==
                 IF count_above # None /\ The(count_above) > 0
                 THEN FirstN(SelectSeq(all_strikes, above), The(count_above))
                 ELSE <<>>
             strikes_below ==
                 IF count_below # None /\ The(count_below) > 0
                 THEN FirstN(SelectSeq(Reversed(all_strikes), below), The(count_below))
                 ELSE <<>>
         IN  Sorted(Elements(strikes_above \o strikes_below))

\* sum(values), min(values), max(values) of the values f gives to the rows
RECURSIVE SumOver(_)
SumOver(f) ==
    IF DOMAIN f = {} THEN 0
    ELSE LET r == CHOOSE x \in DOMAIN f : TRUE
         IN  f[r] + SumOver([x \in DOMAIN f \ {r} |-> f[x]])

MinOver(f) == CHOOSE v \in {f[r] : r \in DOMAIN f} : \A r \in DOMAIN f : v <= f[r]
MaxOver(f) == CHOOSE v \in {f[r] : r \in DOMAIN f} : \A r \in DOMAIN f : v >= f[r]

\* sum(values) / len(values), kept as the pair of the sum and the count
Mean(f) == <<SumOver(f), Cardinality(DOMAIN f)>>

\* _aggregate_statistics, lines 221-262: the keyword arguments PremiumStatistics
\* is called with for the records of one strike (median_premium and
\* std_premium are left out of the model)
StatisticsArguments(records, strike_price) ==
    LET prices == [r \in records |-> r.premium]
        timestamps == [r \in records |-> r.collection_timestamp]
        avg(g) == LET values == [r \in {x \in records : x.greek[g] # None} |->
                                   The(r.greek[g])]
                  IN  IF DOMAIN values # {} THEN Some(Mean(values)) ELSE None
    IN  [strike_price |-> strike_price,
         min_premium |-> MinOver(prices),
         max_premium |-> MaxOver(prices),
         avg_premium |-> Mean(prices),
         avg_delta |-> avg("delta"),
         avg_gamma |-> avg("gamma"),
         avg_theta |-> avg("theta"),
         avg_vega |-> avg("vega"),
         data_points |-> Cardinality(records),
         first_seen |-> MinOver(timestamps),
         last_seen |-> MaxOver(timestamps)]

\* models/schemas.py PremiumStatistics: the fields declared with Field(...)
PremiumStatisticsRequired ==
    {"strike_price", "duration_days", "min_premium", "max_premium", "avg_premium",
     "data_points", "first_seen", "last_seen"}

\* PremiumStatistics(**arguments): the entry, or None where pydantic raises
\* ValidationError for a required field that is missing
PremiumStatistics(arguments) ==
    IF PremiumStatisticsRequired \subseteq DOMAIN arguments
    THEN Some(arguments)
    ELSE None

\* statistics.sort(key=lambda s: s.strike_price)
RECURSIVE SortByStrike(_)
SortByStrike(entries) ==
    IF entries = <<>> THEN <<>>
    ELSE LET rest == SortByStrike(Tail(entries))
             le(e) == e.strike_price <= Head(entries).strike_price
             gt(e) == e.strike_price > Head(entries).strike_price
         IN  SelectSeq(rest, le) \o <<Head(entries)>> \o SelectSeq(rest, gt)

\* the loop of _aggregate_statistics over the strikes left, with the entries
\* made so far
RECURSIVE AggregateLoop(_, _, _)
AggregateLoop(base, strike_prices, statistics) ==
    IF strike_prices = <<>>
    THEN [raised |-> FALSE, results |-> SortByStrike(statistics)]
    ELSE LET records == {r \in base : r.strike_price = Head(strike_prices)}
         IN  IF records = {}
             THEN AggregateLoop(base, Tail(strike_prices), statistics)
             ELSE LET entry == PremiumStatistics(
                                   StatisticsArguments(records, Head(strike_prices)))
                  IN  IF entry = None
                      THEN [raised |-> TRUE, results |-> <<>>]
                      ELSE AggregateLoop(base, Tail(strike_prices),
                                         Append(statistics, The(entry)))

\* an aggregation that takes a selected strike without records for an error
aggregate_statistics_raising_on_empty(base, strike_prices) ==
    IF \E k \in 1 .. Len(strike_prices) :
          {r \in base : r.strike_price = strike_prices[k]} = {}
    THEN [raised |-> TRUE, results |-> <<>>]
    ELSE AggregateLoop(base, strike_prices, <<>>)

\* QueryService._aggregate_statistics
aggregate_statistics(base, strike_prices) == AggregateLoop(base, strike_prices, <<>>)

RECURSIVE SumDataPoints(_)
SumDataPoints(results) ==
    IF results = <<>> THEN 0
    ELSE Head(results).data_points + SumDataPoints(Tail(results))

NoAnswer == [error |-> "-", strikes |-> <<>>, results |-> <<>>,
             total_strikes |-> 0, total_data_points |-> 0]

\* QueryService.query_premium_statistics at time t; strikes is what the strike
\* mode selected, error the exception that left the method
query_premium_statistics(table, known, request, t, database_order) ==
    IF Upper(request.ticker) \notin known
    THEN [NoAnswer EXCEPT !.error = "ValueError"]
    ELSE LET base == BaseQuery(table, request, t)
             strike_prices ==
                 IF request.strike_mode = "exact"
                 THEN get_exact_strikes(The(request.strike_price))
                 ELSE IF request.strike_mode = "percentage_range"
                 THEN get_range_strikes(table, The(request.strike_price),
                                        The(request.strike_range_percent),
                                        database_order)
                 ELSE get_nearest_strikes(base, request.nearest_count_above,
                                          request.nearest_count_below)
             statistics == aggregate_statistics(base, strike_prices)
         IN  IF statistics.raised
             THEN [NoAnswer EXCEPT !.error = "ValidationError", !.strikes = strike_prices]
             ELSE [error |-> "-", strikes |-> strike_prices,
                   results |-> statistics.results,
                   total_strikes |-> Len(statistics.results),
                   total_data_points |-> SumDataPoints(statistics.results)]

NoQueryRequest == QueryRequest("-", "-", None, None, None, None, None)
NoQuery == [table |-> {}, request |-> NoQueryRequest, answer |-> NoAnswer]

\* the stocks table holds the rows of these tickers
KnownTickers == {t \in Tickers : stocks[t] # "absent"}

\* POST /api/query/premium: a call of query_premium_statistics, one request
\* at a time
QueryPremium(request) ==
    /\ queryCall.request = NoQueryRequest
    /\ \E database_order \in
            IF request.strike_mode = "percentage_range"
            THEN Orders(StrikesBetween(queryCall.table, The(request.strike_price),
                                       The(request.strike_range_percent)))
            ELSE {<<>>} :
          queryCall' = [queryCall EXCEPT
                          !.request = request,
                          !.answer = query_premium_statistics(queryCall.table, KnownTickers,
                                                              request, now, database_order)]
    /\ ev' = Ev("query_premium")
    /\ UNCHANGED <<now, schedVars, routerVars, scraperVars,
                   response, quota, greeksCall, price_cache,
                   priceCall, rateCall, chainCall>>

\* the endpoint has returned the answer; the service keeps nothing of a query
QueryReturn ==
    /\ queryCall.request # NoQueryRequest
    /\ queryCall' = [NoQuery EXCEPT !.table = queryCall.table]
    /\ ev' = Ev("query_return")
    /\ UNCHANGED <<now, schedVars, routerVars, scraperVars,
                   response, quota, greeksCall, price_cache,
                   priceCall, rateCall, chainCall>>

----------------------------------------------------------------------------
(* services/greeks.py: GreeksCalculator *)

\* the keys of the dictionary calculate_greeks returns
GreeksKeys == {"delta", "gamma", "theta", "vega", "rho"}

\* GreeksCalculator._null_greeks
null_greeks == [g \in GreeksKeys |-> None]

\* the values a call passes: a number, or None.  The implied volatility is
\* in percent (25 is the decimal 0.25)
GreeksStockPrices == {None, Some(-1), Some(0), Some(100)}
GreeksStrikes == {None, Some(-5), Some(0), Some(95)}
GreeksDays == {None, Some(-1), Some(0), Some(30)}
GreeksVolatilities == {None, Some(-25), Some(0), Some(25)}
GreeksOptionTypes == {None, Some("call"), Some("put")}

\* the exceptions the body of calculate_greeks raises on these values: None
\* compared with 0 is a TypeError, None.lower() an AttributeError
GreeksExceptions == {"TypeError", "AttributeError"}

\* a calculation that accepts an option on its expiration day
calculate_greeks_on_expiration_day(stock_price, strike_price, time_to_expiry_days, implied_volatility, option_type) ==
    LET body ==
            IF stock_price = None THEN "TypeError"
            ELSE IF The(stock_price) <= 0 THEN "null"
            ELSE IF strike_price = None THEN "TypeError"
            ELSE IF The(strike_price) <= 0 THEN "null"
            ELSE IF time_to_expiry_days = None THEN "TypeError"
            ELSE IF The(time_to_expiry_days) < 0 THEN "null"
            ELSE IF implied_volatility = None THEN "TypeError"
            ELSE IF The(implied_volatility) <= 0 THEN "null"
            ELSE IF option_type = None THEN "AttributeError"
            ELSE "computed"
        outcome == IF body \in GreeksExceptions THEN "null" ELSE body
    IN  [raised |-> outcome \in GreeksExceptions,
         greeks |-> IF outcome = "computed"
                    THEN [g \in GreeksKeys |-> Some("number")]
                    ELSE null_greeks]

\* GreeksCalculator.calculate_greeks.  body is the try statement of lines
\* 63-117, read left to right with the short circuit of `or`: the checks of
\* lines 65-75, then the Black-Scholes values of lines 77-117, which are
\* numbers whose size the model leaves open.  outcome is what the function
\* does after the except clause of lines 119-121, which turns every exception
\* into the null result.
calculate_greeks(stock_price, strike_price, time_to_expiry_days, implied_volatility, option_type) ==
    LET body ==
            IF stock_price = None THEN "TypeError"
            ELSE IF The(stock_price) <= 0 THEN "null"
            ELSE IF strike_price = None THEN "TypeError"
            ELSE IF The(strike_price) <= 0 THEN "null"
            ELSE IF time_to_expiry_days = None THEN "TypeError"
            ELSE IF The(time_to_expiry_days) <= 0 THEN "null"
            ELSE IF implied_volatility = None THEN "TypeError"
            ELSE IF The(implied_volatility) <= 0 THEN "null"
            ELSE IF option_type = None THEN "AttributeError"
            ELSE "computed"
        outcome == IF body \in GreeksExceptions THEN "null" ELSE body
    IN  [raised |-> outcome \in GreeksExceptions,
         greeks |-> IF outcome = "computed"
                    THEN [g \in GreeksKeys |-> Some("number")]
                    ELSE null_greeks]

NoGreeksCall ==
    [called |-> FALSE, stock_price |-> None, strike_price |-> None,
     time_to_expiry_days |-> None, implied_volatility |-> None,
     option_type |-> None, raised |-> FALSE, greeks |-> null_greeks]

\* a call of calculate_greeks
CalculateGreeks(stock_price, strike_price, time_to_expiry_days, implied_volatility, option_type) ==
    /\ LET out == calculate_greeks(stock_price, strike_price, time_to_expiry_days,
                                   implied_volatility, option_type)
       IN  greeksCall' = [called |-> TRUE, stock_price |-> stock_price,
                          strike_price |-> strike_price,
                          time_to_expiry_days |-> time_to_expiry_days,
                          implied_volatility |-> implied_volatility,
                          option_type |-> option_type,
                          raised |-> out.raised, greeks |-> out.greeks]
    /\ ev' = Ev("calculate_greeks")
    /\ UNCHANGED <<now, schedVars, routerVars, scraperVars,
                   response, quota, queryCall, price_cache, priceCall,
                   rateCall, chainCall>>

----------------------------------------------------------------------------
(* services/scraper.py: _process_options_dataframe, the record of each row *)

\* the rows of a DataFrame: a last price that is absent, zero, negative or
\* positive, a bid and an ask that are zero or positive, an implied
\* volatility that is absent, zero or positive
NumberRows ==
    {row \in [strike : {100}, lastPrice : {None, Some(0), Some(-1), Some(5)},
              bid : {0, 1}, ask : {0, 2},
              impliedVolatility : {None, Some(0), Some(30)}, nan : {{}}] :
        /\ Truthy(row.lastPrice) => (row.bid = 0 <=> row.ask = 0)
        /\ row.impliedVolatility = Some(0) => row.lastPrice = Some(5)}

\* rows with one cell that is NaN; the number of that cell is not read
NaNRows ==
    [strike : {100}, lastPrice : {None}, bid : {0, 1}, ask : {0, 2},
     impliedVolatility : {None, Some(30)}, nan : {{"lastPrice"}}]
    \cup [strike : {100}, lastPrice : {None, Some(0), Some(5)}, bid : {0}, ask : {0, 2},
          impliedVolatility : {Some(30)}, nan : {{"bid"}}]
    \cup [strike : {100}, lastPrice : {None, Some(5)}, bid : {0, 1}, ask : {0},
          impliedVolatility : {Some(30)}, nan : {{"ask"}}]
    \cup [strike : {100}, lastPrice : {None, Some(5)}, bid : {0}, ask : {0},
          impliedVolatility : {None}, nan : {{"impliedVolatility"}}]

ChainRows == NumberRows \cup NaNRows

RECURSIVE SeqsUpTo(_, _)
SeqsUpTo(S, n) ==
    IF n = 0 THEN {<<>>}
    ELSE LET shorter == SeqsUpTo(S, n - 1)
         IN  shorter \cup {Append(q, x) : q \in shorter, x \in S}

\* GreeksCalculator.calculate_greeks for an implied volatility that is NaN:
\* NaN passes the check `implied_volatility <= 0` of greeks.py:73, so where
\* the other arguments pass theirs, every value of lines 77-117 is NaN,
\* round(nan, 6) is NaN and nothing raises
NaNGreeks(stock_price, strike_price, days_to_expiry, option_type) ==
    IF calculate_greeks(Some(stock_price), Some(strike_price), Some(days_to_expiry),
                        Some(1), Some(option_type)).greeks = null_greeks
    THEN null_greeks
    ELSE [g \in GreeksKeys |-> Some("nan")]

\* _process_options_dataframe, lines 405-477, for one row: the record that
\* is added to the session, None for a row that is skipped.  The field nan of
\* the record names its columns that hold NaN.
ContractRecord(row, option_type, stock_price, days_to_expiry) ==
    LET premium == Premium(row)
        implied_volatility == row.impliedVolatility
    IN  IF SkippedPremium(premium) THEN None
        ELSE Some([strike_price |-> row.strike,
                   option_type |-> option_type,
                   days_to_expiry |-> days_to_expiry,
                   contract_status |-> IF days_to_expiry > 0 THEN "active"
                                       ELSE "expired",
                   premium |-> premium,
                   implied_volatility |-> implied_volatility,
                   nan |-> (IF premium = NaN THEN {"premium"} ELSE {})
                           \cup (IF IsNaN(row, "impliedVolatility")
                                 THEN {"implied_volatility"} ELSE {}),
                   greeks |->
                       IF IsNaN(row, "impliedVolatility")
                       THEN NaNGreeks(stock_price, row.strike, days_to_expiry,
                                      option_type)
                       ELSE IF implied_volatility = None \/ The(implied_volatility) <= 0
                       THEN [g \in GreeksKeys |-> None]
                       ELSE calculate_greeks(Some(stock_price), Some(row.strike),
                                             Some(days_to_expiry), implied_volatility,
                                             Some(option_type)).greeks])

\* _process_options_dataframe, lines 403-477: the loop over the rows
RECURSIVE ContractRecords(_, _, _, _)
ContractRecords(rows, option_type, stock_price, days_to_expiry) ==
    IF rows = <<>> THEN <<>>
    ELSE LET record == ContractRecord(Head(rows), option_type, stock_price,
                                      days_to_expiry)
             others == ContractRecords(Tail(rows), option_type, stock_price,
                                       days_to_expiry)
         IN  IF record = None THEN others ELSE <<The(record)>> \o others

NoChainCall ==
    [called |-> FALSE, rows |-> <<>>, option_type |-> "call", stock_price |-> 0,
     days_to_expiry |-> 0, records |-> <<>>, contracts_count |-> 0]

\* the DataFrames of the calls
ChainFrames == SeqsUpTo(ChainRows, MaxRows) \ {<<>>}

\* the call of _process_options_dataframe with the arguments chainCall holds
ProcessOptionsDataframe ==
    /\ ~chainCall.called
    /\ LET records == ContractRecords(chainCall.rows, chainCall.option_type,
                                      chainCall.stock_price, chainCall.days_to_expiry)
       IN  chainCall' = [chainCall EXCEPT !.called = TRUE, !.records = records,
                                          !.contracts_count = Len(records)]
    /\ ev' = Ev("process_options_dataframe")
    /\ UNCHANGED <<now, schedVars, routerVars, scraperVars,
                   response, quota, queryCall, greeksCall, price_cache,
                   priceCall, rateCall>>

----------------------------------------------------------------------------
(* api/endpoints/stocks.py: GET /api/stocks/{ticker}/price *)

\* _cache_ttl_minutes
cache_ttl_minutes == 10

\* the clock advances by half the time an entry is served from the cache
CacheStep == cache_ttl_minutes \div 2

\* _price_cache when the module is loaded: no ticker has an entry
NoCache == [t \in Tickers |-> None]

\* the tickers of the requests
PriceRequestTickers == {"XYZ", "xyz", "ABC"}

\* a HistoricalPremiumRecord row, the columns the endpoint reads
PriceRow(ticker, collection_timestamp, stock_price_at_collection) ==
    [ticker |-> ticker, collection_timestamp |-> collection_timestamp,
     stock_price_at_collection |-> stock_price_at_collection]

\* a table the endpoint reads: two records of XYZ and a later one of ABC
PriceStore ==
    {PriceRow("XYZ", StartNow - 120, 3), PriceRow("XYZ", StartNow - 60, 4),
     PriceRow("ABC", StartNow - 30, 9)}

\* a fallback that reads the first record the stock ever got
LatestRecord_oldest(table, ticker_upper) ==
    LET rows == {r \in table : r.ticker = ticker_upper}
    IN  IF rows = {} THEN None
        ELSE LET first == CHOOSE r \in rows :
                            \A q \in rows : q.collection_timestamp >= r.collection_timestamp
             IN  Some(first.stock_price_at_collection)

\* lines 129-133: the stock_price_at_collection of the record of the stock
\* with the greatest collection_timestamp, None when the stock has no record
LatestRecord(table, ticker_upper) ==
    LET rows == {r \in table : r.ticker = ticker_upper}
    IN  IF rows = {} THEN None
        ELSE LET first == CHOOSE r \in rows :
                            \A q \in rows : q.collection_timestamp <= r.collection_timestamp
             IN  Some(first.stock_price_at_collection)

\* lines 86-88: the age of the entry of a ticker at time t, None without entry
cache_age(cache, ticker_upper, t) ==
    IF cache[ticker_upper] = None THEN None
    ELSE Some(t - The(cache[ticker_upper]).timestamp)

\* an endpoint that still serves an entry at the end of its ten minutes
get_stock_price_caching_at_ttl(cache, h, stock_table, ticker, fetched, latest_record, t) ==
    LET ticker_upper == Upper(ticker)
        age == cache_age(cache, ticker_upper, t)
        live == get_live_price(h, fetched, t)
    IN  IF stock_table[ticker_upper] = "absent"
        THEN [status |-> 404, outcome |-> "not_found", latest_price |-> None,
              cache |-> cache, health |-> h, calls |-> <<>>, result |-> None,
              age |-> None]
        ELSE IF age # None /\ The(age) <= cache_ttl_minutes
        THEN [status |-> 200, outcome |-> "cached",
              latest_price |-> Some(The(cache[ticker_upper]).price),
              cache |-> cache, health |-> h, calls |-> <<>>, result |-> None,
              age |-> age]
        ELSE IF live.result # None
        THEN [status |-> 200, outcome |-> "live",
              latest_price |-> Some(The(live.result).price),
              cache |-> [cache EXCEPT ![ticker_upper] =
                           Some([price |-> The(live.result).price,
                                 timestamp |-> t,
                                 source |-> The(live.result).source])],
              health |-> live.health, calls |-> live.calls,
              result |-> live.result, age |-> age]
        ELSE [status |-> 200,
              outcome |-> IF latest_record # None THEN "database" ELSE "none",
              latest_price |-> latest_record,
              cache |-> cache, health |-> live.health, calls |-> live.calls,
              result |-> None, age |-> age]

\* get_stock_price at time t, lines 64-160: the answer, the cache and the
\* health of the sources it leaves, and the sources it asked.  The stock is
\* looked up whatever its status (lines 75-80); an entry younger than
\* _cache_ttl_minutes is served (lines 86-99); otherwise get_live_price is
\* called, its result stored with the timestamp of the result (lines 102-124),
\* and without a result the latest record of the table is the answer and
\* nothing is stored (lines 126-150)
get_stock_price(cache, h, stock_table, ticker, fetched, latest_record, t) ==
    LET ticker_upper == Upper(ticker)
        age == cache_age(cache, ticker_upper, t)
        live == get_live_price(h, fetched, t)
    IN  IF stock_table[ticker_upper] = "absent"
        THEN [status |-> 404, outcome |-> "not_found", latest_price |-> None,
              cache |-> cache, health |-> h, calls |-> <<>>, result |-> None,
              age |-> None]
        ELSE IF age # None /\ The(age) < cache_ttl_minutes
        THEN [status |-> 200, outcome |-> "cached",
              latest_price |-> Some(The(cache[ticker_upper]).price),
              cache |-> cache, health |-> h, calls |-> <<>>, result |-> None,
              age |-> age]
        ELSE IF live.result # None
        THEN [status |-> 200, outcome |-> "live",
              latest_price |-> Some(The(live.result).price),
              cache |-> [cache EXCEPT ![ticker_upper] =
                           Some([price |-> The(live.result).price,
                                 timestamp |-> t,
                                 source |-> The(live.result).source])],
              health |-> live.health, calls |-> live.calls,
              result |-> live.result, age |-> age]
        ELSE [status |-> 200,
              outcome |-> IF latest_record # None THEN "database" ELSE "none",
              latest_price |-> latest_record,
              cache |-> cache, health |-> live.health, calls |-> live.calls,
              result |-> None, age |-> age]

NoPriceCall ==
    [ticker |-> "-", status |-> 0, outcome |-> "-", latest_price |-> None,
     calls |-> <<>>, result |-> None, age |-> None, answering |-> {}]

\* a request GET /api/stocks/{ticker}/price
GetStockPrice(ticker) ==
    /\ \E y \in YahooPrices, a \in AlphaVantagePrices(keys.alpha_vantage),
          f \in FinnhubPrices(keys.finnhub) :
         LET fetched == [s \in DOMAIN NoFetch |->
                           IF s = "yahoo_finance" THEN y
                           ELSE IF s = "alpha_vantage" THEN a ELSE f]
             out == get_stock_price(price_cache, health, stocks, ticker, fetched,
                                    LatestRecord(store, Upper(ticker)), now)
         IN  /\ price_cache' = out.cache
             /\ health' = out.health
             /\ priceCall' = [ticker |-> Upper(ticker), status |-> out.status,
                              outcome |-> out.outcome,
                              latest_price |-> out.latest_price,
                              calls |-> out.calls, result |-> out.result,
                              age |-> out.age,
                              answering |->
                                IF out.calls = <<>> THEN {}
                                ELSE {s \in DOMAIN fetched : Usable(fetched[s])}]
             /\ ev' = [op |-> "get_stock_price", src |-> out.outcome]
    /\ UNCHANGED <<now, keys, last, schedVars, scraperVars,
                   response, quota, queryCall, greeksCall, rateCall, chainCall>>

\* the clock advances between two requests
CacheTick ==
    /\ now + CacheStep <= StartNow + MaxCacheTicks * CacheStep
    /\ now' = now + CacheStep
    /\ ev' = Ev("tick")
    /\ UNCHANGED <<schedVars, routerVars, scraperVars, apiVars>>

----------------------------------------------------------------------------
(* Specifications *)

NoQuota == [daily_api_queries |-> 0, last_reset_date |-> None, reset |-> FALSE]

\* the endpoints were not called yet
InitApiIdle ==
    /\ response = NoPut
    /\ quota = NoQuota
    /\ queryCall = NoQuery
    /\ greeksCall = NoGreeksCall
    /\ price_cache = NoCache
    /\ priceCall = NoPriceCall
    /\ rateCall = NoRateCall
    /\ chainCall = NoChainCall


\* the scheduler, its timer and the wrapper threads
Init ==
    /\ now = StartNow
    /\ ev = Ev("init")
    /\ InitSched(LongDayRows \cup EarlyRows, {NoService, BrokenService})
    /\ health = InitHealth
    /\ keys = [alpha_vantage |-> FALSE, finnhub |-> FALSE]
    /\ last = NoCall
    /\ InitScraperIdle
    /\ InitApiIdle

Next ==
    \/ Initialize
    \/ InitializeSchedule
    \/ Pause
    \/ \E start_now \in BOOLEAN : Resume(start_now)
    \/ \E a \in UpdateArgs : UpdateConfig(a.interval, a.start, a.end, a.timezone)
    \/ Tick
    \/ Fire
    \/ \E k \in 1 .. MaxOldSchedulers : OldFire(k)
    \/ \E w \in Wrappers : WrapperCheck(w)
    \/ \E w \in Wrappers : WrapperMark(w)
    \/ \E w \in Wrappers : ScrapeStart(w)
    \/ \E w \in Wrappers : WrapperFail(w)
    \/ \E w \in Wrappers : WrapperReturn(w)
    \/ Shutdown
    \/ SchedulerStop
    \/ OldSchedulerStop

Spec == Init /\ [][Next]_vars

\* the price source router and its health tracker
InitRouter ==
    /\ now = StartNow
    /\ ev = Ev("init")
    /\ InitSchedVars
    /\ ~hasConfig
    /\ InitRouterVars
    /\ InitScraperIdle
    /\ InitApiIdle

NextRouter ==
    \/ GetLivePrice
    \/ \E s \in {"yahoo_finance", "alpha_vantage", "finnhub"} : RecordFailure(s)
    \/ \E s \in {"yahoo_finance", "alpha_vantage", "finnhub"} : RecordSuccess(s)
    \/ RouterTick

SpecRouter == InitRouter /\ [][NextRouter]_vars

\* the health tracker alone: series of failures and successes of the providers
InitBackoff ==
    /\ now = StartNow
    /\ ev = Ev("init")
    /\ InitSchedVars
    /\ ~hasConfig
    /\ health = InitHealth
    /\ keys = [alpha_vantage |-> TRUE, finnhub |-> TRUE]
    /\ last = NoCall
    /\ InitScraperIdle
    /\ InitApiIdle

NextBackoff ==
    \/ \E s \in {"yahoo_finance", "alpha_vantage", "finnhub"} : FailAgain(s)
    \/ \E s \in {"yahoo_finance", "alpha_vantage", "finnhub"} : RecordSuccess(s)
    \/ RouterTick

SpecBackoff == InitBackoff /\ [][NextBackoff]_vars

\* collection runs, calls of _scrape_stock, the expiry marker and the
\* watchlist endpoints over the tables of the store
InitScraper ==
    /\ now = StartNow
    /\ ev = Ev("init")
    /\ InitSchedVars
    /\ ~hasConfig
    /\ health = InitHealth
    /\ keys = [alpha_vantage |-> FALSE, finnhub |-> FALSE]
    /\ last = NoCall
    /\ InitScraperVars
    /\ InitApiIdle

NextScraper ==
    \/ RunOpen
    \/ RunSnapshot
    \/ \E t \in Tickers : ScrapeStock(t)
    \/ \E t \in Tickers : AddStock(t)
    \/ \E t \in Tickers : RemoveStock(t)
    \/ \E t \in Tickers, status \in {"active", "inactive"} : UpdateStockStatus(t, status)
    \/ \E action \in {"activate", "deactivate", "remove"}, tickers \in SUBSET Tickers \ {{}} :
          BulkStockAction(action, tickers)

SpecScraper == InitScraper /\ [][NextScraper]_vars

\* the expiry marker over the premium records, day after day
InitMarker ==
    /\ InitScraper
    /\ stocks = [t \in Tickers |-> "active"]
    /\ market = [t \in Tickers |-> [quote |-> None, chain |-> "scenario"]]

NextMarker ==
    \/ MarkExpired
    \/ NextDay
    \/ \E t \in Tickers : RemoveStock(t)
    \/ RunOpen
    \/ RunSnapshot
    \/ \E t \in Tickers : ScrapeStock(t)

SpecMarker == InitMarker /\ [][NextMarker]_vars

\* the scheduler configuration: the service method and the endpoint that
\* is its only caller
InitConfig ==
    /\ Init
    /\ cfg.scheduler_status = "idle"
    /\ cfg \in LongDayRows
    /\ sched = NoService

NextConfig ==
    \/ Initialize
    \/ InitializeSchedule
    \/ \E r \in PutRequests : UpdateSchedulerConfig(r)
    \/ \E a \in UpdateArgs : UpdateConfig(a.interval, a.start, a.end, a.timezone)

SpecConfig == InitConfig /\ [][NextConfig]_vars

\* the daily API-query counter of the schedule row, over several days
InitQuota == InitRouter

NextQuota ==
    \/ CheckAndResetDailyCounter
    \/ \E count \in 1 .. 2 : IncrementQueryCount(count)
    \/ CalculateRateLimits(None, None, None)
    \/ QuotaTick

SpecQuota == InitQuota /\ [][NextQuota]_vars

\* premium queries over tables of records
InitQuery ==
    /\ now = StartNow
    /\ ev = Ev("init")
    /\ InitSchedVars
    /\ ~hasConfig
    /\ health = InitHealth
    /\ keys = [alpha_vantage |-> FALSE, finnhub |-> FALSE]
    /\ last = NoCall
    /\ stocks = [t \in Tickers |-> "active"]
    /\ market = [t \in Tickers |-> [quote |-> None, chain |-> "scenario"]]
    /\ store = {}
    /\ runRows = <<>>
    /\ call = NoScrapeCall
    /\ marked = <<>>
    /\ response = NoPut
    /\ quota = NoQuota
    /\ \E table \in QueryTables : queryCall = [NoQuery EXCEPT !.table = table]
    /\ greeksCall = NoGreeksCall
    /\ price_cache = NoCache
    /\ priceCall = NoPriceCall
    /\ rateCall = NoRateCall
    /\ chainCall = NoChainCall

NextQuery ==
    \/ \E request \in QueryRequests : QueryPremium(request)
    \/ QueryReturn

SpecQuery == InitQuery /\ [][NextQuery]_vars


\* calls of the Greeks calculator
InitGreeks == InitRouter

NextGreeks ==
    \E stock_price \in GreeksStockPrices, strike_price \in GreeksStrikes,
       time_to_expiry_days \in GreeksDays,
       implied_volatility \in GreeksVolatilities,
       option_type \in GreeksOptionTypes :
        CalculateGreeks(stock_price, strike_price, time_to_expiry_days,
                        implied_volatility, option_type)

SpecGreeks == InitGreeks /\ [][NextGreeks]_vars

\* every source failed once when the process started
AllFailedOnce ==
    record_failure(record_failure(record_failure(InitHealth, "yahoo_finance", StartNow),
                                  "alpha_vantage", StartNow),
                   "finnhub", StartNow)

\* requests for the price of a stock, with the cache of the endpoint
InitCache ==
    /\ now = StartNow
    /\ ev = Ev("init")
    /\ InitSchedVars
    /\ ~hasConfig
    /\ health \in {InitHealth, AllFailedOnce}
    /\ keys = [alpha_vantage |-> TRUE, finnhub |-> TRUE]
    /\ last = NoCall
    /\ \/ /\ stocks = [t \in Tickers |-> IF t = "XYZ" THEN "active" ELSE "inactive"]
          /\ store = PriceStore
       \/ /\ stocks = [t \in Tickers |-> IF t = "XYZ" THEN "active" ELSE "absent"]
          /\ store = {}
    /\ market = [t \in Tickers |-> [quote |-> None, chain |-> "scenario"]]
    /\ runRows = <<>>
    /\ call = NoScrapeCall
    /\ marked = <<>>
    /\ InitApiIdle

NextCache ==
    \/ \E ticker \in PriceRequestTickers : GetStockPrice(ticker)
    \/ CacheTick

SpecCache == InitCache /\ [][NextCache]_vars


\* the rate-limit calculation of the endpoint and the copy the tests exercise
InitRates ==
    /\ now = StartNow
    /\ ev = Ev("init")
    /\ InitSchedVars
    /\ InitRouterVars
    /\ stocks \in [Tickers -> {"absent", "active", "inactive"}]
    /\ market = [t \in Tickers |-> [quote |-> None, chain |-> "scenario"]]
    /\ store = {}
    /\ runRows = <<>>
    /\ call = NoScrapeCall
    /\ marked = <<>>
    /\ InitApiIdle

NextRates ==
    \/ \E interval \in RateIntervals, delay \in RateDelays, max_exp \in RateMaxExpirations :
          CalculateRateLimits(interval, delay, max_exp)
    \/ \E num_stocks \in TestStocks, interval \in TestIntervals, delay \in TestDelays,
          max_exp \in TestMaxExpirations :
          TestCalculateRateLimits(num_stocks, interval, delay, max_exp)

SpecRates == InitRates /\ [][NextRates]_vars


\* a call of _process_options_dataframe on a DataFrame of up to MaxRows rows
InitChain ==
    /\ now = StartNow
    /\ ev = Ev("init")
    /\ InitSchedVars
    /\ ~hasConfig
    /\ health = InitHealth
    /\ keys = [alpha_vantage |-> FALSE, finnhub |-> FALSE]
    /\ last = NoCall
    /\ InitScraperIdle
    /\ response = NoPut
    /\ quota = NoQuota
    /\ queryCall = NoQuery
    /\ greeksCall = NoGreeksCall
    /\ price_cache = NoCache
    /\ priceCall = NoPriceCall
    /\ rateCall = NoRateCall
    /\ \E rows \in ChainFrames, option_type \in {"call", "put"},
          days_to_expiry \in {0, 10} :
         chainCall = [NoChainCall EXCEPT !.rows = rows, !.option_type = option_type,
                                         !.stock_price = 100,
                                         !.days_to_expiry = days_to_expiry]

NextChain == ProcessOptionsDataframe

SpecChain == InitChain /\ [][NextChain]_vars


----------------------------------------------------------------------------
(* Claims about the scheduler (specification Spec) *)

\* C1: of the collection runs that timer firings started at most one
\* executes at any time (at most one timer-started thread is inside
\* scrape_all_stocks), and a firing that finds the previous run in flight is
\* dropped: it starts no thread and changes no instance count.
C1_AtMostOneTimerRun ==
    /\ [](TimerScrapingCount <= 1)
    /\ [][ev'.op = "drop" => (wrappers' = wrappers /\ instances' = instances)]_vars

\* C2: two collection runs never execute at the same time, manual or timer
\* triggered (at most one thread is inside scrape_all_stocks).
C2_SingleRunAtATime == ScrapingCount <= 1

\* C3: initialize leaves the persisted status paused and the job paused, and
\* as long as resume was not called no timer-triggered collection run starts.
C3_PausedUntilResume ==
    /\ ev.op = "initialize" =>
           (cfg.scheduler_status = "paused" /\ job.next_run_time = None)
    /\ (sched.is_initialized /\ ~resumed) => \A w \in TimerWrappers : w.pc \notin RunPcs

\* C4: a timer firing between a pause() and the next resume() starts no
\* collection run.
C4_NoRunFromPausedTimer ==
    \A w \in TimerWrappers :
        w.paused => w.pc \in {"start", "checked", "noconfig", "skipped", "escaped"}

\* C5: when a collection run raises inside the wrapper (a thread leaves
\* the part of the wrapper that runs the collection), the status error is
\* persisted in that step, no exception leaves the wrapper, and the job is
\* left as it was, its next run time untouched.
C5_ErrorStatusOnFailure ==
    [][CountIn(wrappers', {w \in BagToSet(wrappers') : w.pc \in RunPcs}) < InRunCount
          => /\ hasConfig => cfg'.scheduler_status = "error"
             /\ CountIn(wrappers', {w \in BagToSet(wrappers') : w.pc = "escaped"})
                   = EscapedCount
             /\ job' = job]_vars

\* the wall-clock time of day in the configured timezone is outside the window
OutsideMarketHours ==
    \/ LocalTime(now, cfg.timezone) < cfg.market_hours_start
    \/ LocalTime(now, cfg.timezone) > cfg.market_hours_end

\* C6: a wrapper invocation that finds the time of day (in the configured
\* timezone) outside the market hours, before the start or after the end,
\* returns without starting a run and leaves the schedule row (status, last
\* and next run timestamps), the run records, the premium records and the
\* progress tracker unchanged, in the step in which it checks the market
\* hours and in the step in which its thread ends: a thread that leaves the
\* start of the wrapper while the row it reads is outside the window has
\* either no session or goes to the return of line 349.
C6_SkipChangesNothing ==
    [][/\ (/\ hasConfig
           /\ OutsideMarketHours
           /\ CountIn(wrappers', {w \in BagToSet(wrappers') : w.pc = "start"}) < StartCount)
          => /\ cfg' = cfg
             /\ runs' = runs
             /\ premiums' = premiums
             /\ progress' = progress
             /\ ev'.op \in {"skip", "session_error"}
             /\ \E w \in Wrappers :
                   /\ w.pc = "start"
                   /\ \E pc \in {"skipped", "escaped"} :
                         wrappers' = Put(Take(wrappers, w), [w EXCEPT !.pc = pc])
             /\ ev'.op = "skip" <=> CountIn(wrappers', {w \in BagToSet(wrappers') : w.pc = "escaped"}) = EscapedCount
       /\ (ev'.op = "returned" /\ ev'.src = "skipped")
          => /\ cfg' = cfg
             /\ runs' = runs
             /\ premiums' = premiums
             /\ progress' = progress
             /\ \E w \in Wrappers : w.pc = "skipped" /\ wrappers' = Take(wrappers, w)]_vars

\* C6 witness: the thread of a firing that was skipped at a time after the end
\* of the market hours has ended, the row as the resume before it left it
C6_Witness ==
    /\ ev.op = "returned" /\ ev.src = "skipped"
    /\ hasConfig
    /\ LocalTime(now, cfg.timezone) > cfg.market_hours_end
    /\ cfg.scheduler_status = "idle"
    /\ cfg.last_run_timestamp = None
    /\ Wrappers = {}

----------------------------------------------------------------------------
(* Claims about the price source router (specification SpecRouter) *)

LiveSources == {SourceOrder[k] : k \in 1 .. Len(SourceOrder)}
Range(seq) == {seq[k] : k \in 1 .. Len(seq)}

\* a fetched value the router should not use: null, or not positive
Unusable(price) == price = None \/ The(price) <= 0

\* C7: after a price request, every provider that was called and returned an
\* unusable value (null or <= 0) has its failure_count raised by one and a
\* cooldown set, and the provider after it in the candidate list was called.
C7_UnusableIsFailure ==
    ev.op = "get_live_price" =>
        \A k \in 1 .. Len(last.calls) :
            LET s == last.calls[k]
            IN  Unusable(last.fetched[s]) =>
                  /\ health.failure_count[s] = last.before.failure_count[s] + 1
                  /\ health.cooldown_until[s] # None
                  /\ k < Len(last.candidates) => Len(last.calls) > k

\* the position in the candidate list of the first provider whose fetcher
\* returns a usable positive price, 0 when there is none
FirstPositive(cands, fetched) ==
    LET hits == {k \in 1 .. Len(cands) : ~Unusable(fetched[cands[k]])}
    IN  IF hits = {} THEN 0 ELSE CHOOSE k \in hits : \A m \in hits : k <= m

\* C8: the providers are called in the order of the candidate list up to the
\* first one that returns a usable positive price; the request returns that
\* provider's price, which is > 0, under that provider's name, the provider's
\* health is marked success, and no provider after it is called.
C8_FirstPositiveWins ==
    ev.op = "get_live_price" =>
        LET w == FirstPositive(last.candidates, last.fetched)
        IN  IF w = 0
            THEN last.result = None /\ last.calls = last.candidates
            ELSE /\ last.result # None
                 /\ The(last.result).price > 0
                 /\ The(last.result).source = last.candidates[w]
                 /\ The(last.result).price = The(last.fetched[last.candidates[w]])
                 /\ last.calls = SubSeq(last.candidates, 1, w)
                 /\ health.failure_count[last.candidates[w]] = 0
                 /\ health.cooldown_until[last.candidates[w]] = None

\* the providers whose cooldown had not expired when the last request was made
CoolingBefore ==
    {s \in LiveSources : /\ last.before.cooldown_until[s] # None
                         /\ now < The(last.before.cooldown_until[s])}

\* C9: a provider whose cooldown has not expired is in the candidate list of
\* no request made while another provider is available, and a provider
\* without a cooldown or with an expired one is in the list of every request;
\* when all three are cooling down the full priority list is tried.
C9_CooldownExcludes ==
    ev.op = "get_live_price" =>
        IF CoolingBefore = LiveSources
        THEN last.candidates = SourceOrder
        ELSE Range(last.candidates) = LiveSources \ CoolingBefore

\* C9 witness: a request made while one provider, failed twice, was cooling
\* down and left out, and another, failed once, was past its cooldown and
\* back in the list
C9_Witness ==
    /\ ev.op = "get_live_price"
    /\ \E s \in CoolingBefore :
         /\ last.before.failure_count[s] >= 2
         /\ s \notin Range(last.candidates)
    /\ \E u \in LiveSources :
         /\ last.before.failure_count[u] >= 1
         /\ last.before.cooldown_until[u] # None
         /\ now >= The(last.before.cooldown_until[u])
         /\ u \in Range(last.candidates)

\* C10: after a recorded success (by a call of record_success or by a request
\* the provider won) the provider's failure_count is 0 and it has no cooldown,
\* so it is a candidate of the next request, and a failure recorded next sets
\* the cooldown to one times cooldown_minutes.
C10_SuccessResets ==
    (ev.op \in {"get_live_price", "record_success"} /\ ev.src # "-") =>
        /\ health.failure_count[ev.src] = 0
        /\ health.cooldown_until[ev.src] = None
        /\ ev.src \in Range(Candidates(health, now))
        /\ record_failure(health, ev.src, now).cooldown_until[ev.src]
             = Some(now + cooldown_minutes)

\* C10 witness: a provider that had failed twice and was cooling down won a
\* request (all three were cooling down, so the full list was tried)
C10_Witness ==
    /\ ev.op = "get_live_price"
    /\ ev.src # "-"
    /\ last.before.failure_count[ev.src] >= 2
    /\ last.before.cooldown_until[ev.src] # None
    /\ now < The(last.before.cooldown_until[ev.src])

\* the multiplier the backoff is to use for the k-th consecutive failure
ExpectedMultiplier(k) ==
    IF k = 1 THEN 1 ELSE IF k = 2 THEN 2 ELSE IF k = 3 THEN 4 ELSE 8

\* C11: each recorded failure of a provider increases its failure_count by one
\* and sets its cooldown to end 30 minutes times the multiplier after the time
\* of the failure, the multiplier of the k-th consecutive failure being
\* 1, 2, 4, 8, 8, ...; the other providers are left alone, and no cooldown
\* ever ends more than 8 times 30 minutes from now.
C11_BackoffCapped ==
    /\ [](\A s \in LiveSources :
             health.cooldown_until[s] # None =>
                 The(health.cooldown_until[s]) <= now + 8 * 30)
    /\ [][ev'.op = "record_failure" =>
            /\ health'.failure_count[ev'.src] = health.failure_count[ev'.src] + 1
            /\ health'.cooldown_until[ev'.src] =
                   Some(now + 30 * ExpectedMultiplier(health'.failure_count[ev'.src]))
            /\ \A o \in PriceSource \ {ev'.src} :
                   /\ health'.failure_count[o] = health.failure_count[o]
                   /\ health'.cooldown_until[o] = health.cooldown_until[o]]_vars

\* C11 witness: the fifth consecutive failure of a provider was just recorded;
\* its cooldown is 8 times 30 minutes, not 16 times
C11_Witness ==
    /\ ev.op = "record_failure"
    /\ health.failure_count[ev.src] = 5
    /\ health.cooldown_until[ev.src] = Some(now + 240)
    /\ now > StartNow

\* the place of a provider in the fixed priority order
Priority(s) == CHOOSE k \in 1 .. Len(SourceOrder) : SourceOrder[k] = s

\* C12: the candidate list of a price request holds each provider that is not
\* cooling down exactly once, in ascending failure_count, providers with equal
\* counts in the priority order (Yahoo Finance, Alpha Vantage, Finnhub); when
\* all three are cooling down it is the full priority list; and the request
\* calls at least one provider, the first of the list.
C12_CandidateOrder ==
    ev.op = "get_live_price" =>
        LET cands == last.candidates
            count == last.before.failure_count
        IN  /\ IF CoolingBefore = LiveSources
               THEN cands = SourceOrder
               ELSE /\ Range(cands) = LiveSources \ CoolingBefore
                    /\ Len(cands) = Cardinality(LiveSources \ CoolingBefore)
                    /\ \A i, j \in 1 .. Len(cands) :
                          i < j =>
                            \/ count[cands[i]] < count[cands[j]]
                            \/ /\ count[cands[i]] = count[cands[j]]
                               /\ Priority(cands[i]) < Priority(cands[j])
            /\ Len(last.calls) >= 1
            /\ last.calls[1] = cands[1]

\* C12 witness: a request made when Yahoo Finance had failed and was past its
\* cooldown, and the two others had not failed: Yahoo Finance comes last, the
\* two others keep their priority order
C12_Witness ==
    /\ ev.op = "get_live_price"
    /\ last.before.failure_count["yahoo_finance"] >= 1
    /\ last.candidates = <<"alpha_vantage", "finnhub", "yahoo_finance">>

\* C12 second case: all three providers were cooling down and the request
\* still called one
AllCoolingTried ==
    /\ ev.op = "get_live_price"
    /\ CoolingBefore = LiveSources
    /\ Len(last.calls) >= 1

----------------------------------------------------------------------------
(* Claims about the collection run (specification SpecScraper) *)

\* the runs whose execution has ended
EndedRuns == {i \in 1 .. Len(runRows) : runRows[i].ended}

\* the stock log rows of a run for a ticker
LogsOf(r, t) == {k \in 1 .. Len(r.stock_logs) : r.stock_logs[k].ticker = t}

\* C13: when a run has ended, every instrument that was active when it
\* started has exactly one stock log row attached to the run and no other
\* instrument has one, the failed rows are as many as failed_stocks, and
\* successful_stocks + failed_stocks = total_stocks = the number of those
\* instruments.
C13_EveryInstrumentLogged ==
    \A i \in EndedRuns :
        LET r == runRows[i]
        IN  /\ \A t \in Tickers :
                  Cardinality(LogsOf(r, t)) = IF t \in r.snapshot THEN 1 ELSE 0
            /\ Cardinality({k \in 1 .. Len(r.stock_logs) :
                               r.stock_logs[k].status = "failed"}) = r.failed_stocks
            /\ r.successful_stocks + r.failed_stocks = r.total_stocks
            /\ r.total_stocks = Cardinality(r.snapshot)

\* C14: an instrument for which the providers yield no price fails at the
\* price step: _scrape_stock raises without fetching a chain, and a run that
\* has ended has logged every such instrument of its snapshot as failed and
\* has written no premium record for it.
C14_NoPriceFailsInstrument ==
    /\ (call.ticker # "-" /\ market[call.ticker].quote = None) =>
           (call.raised /\ call.chain_fetches = 0 /\ call.contracts = 0)
    /\ \A i \in EndedRuns :
           \A t \in runRows[i].snapshot :
               market[t].quote = None =>
                   /\ \E k \in LogsOf(runRows[i], t) :
                          runRows[i].stock_logs[k].status = "failed"
                   /\ ~\E x \in store : x.ticker = t /\ x.run = i

\* C15: _scrape_stock for an instrument with a price, whose first expiration
\* fails in option_chain and whose second expiration holds one valid
\* contract, does not raise: it reports one contract and the record of the
\* second expiration is persisted.
C15_ExpirationFailureTolerated ==
    (/\ ev.op = "scrape_stock"
     /\ market[call.ticker] = [quote |-> Some(100), chain |-> "partial"])
    => /\ ~call.raised
       /\ call.contracts = 1
       /\ call.chain_fetches = 2
       /\ \E x \in store : /\ x.ticker = call.ticker
                           /\ x.expiration_date = ScenarioExpiration.date
                           /\ x.contract_status = "active"

\* C17: a run during which the watchlist changed still completes and has
\* processed exactly the instruments that were active when it started, one
\* after the other and each once, in the order in which the database returned
\* them for the snapshot.
C17_SnapshotIsolated ==
    \A i \in EndedRuns :
        LET r == runRows[i]
        IN  r.mutated =>
              /\ r.status = "completed"
              /\ \E database_order \in Orders(Tickers) :
                    [k \in 1 .. Len(r.stock_logs) |-> r.stock_logs[k].ticker]
                      = SelectSeq(database_order, LAMBDA t : t \in r.snapshot)

\* C18: a run over the one active instrument XYZ, for which the providers
\* yield the price 100 and whose chain is one expiration 10 days out with one
\* call at strike 100, premium 5 and implied volatility 0.3, has written,
\* when it ends, exactly one premium record, with Greeks, days_to_expiry 10
\* and status active, and counts the instrument as successful.
C18_EndToEndScenario ==
    \A i \in EndedRuns :
        (/\ ev.op = "run_snapshot"
         /\ i = Len(runRows)
         /\ runRows[i].snapshot = {"XYZ"}
         /\ market["XYZ"] = [quote |-> Some(100), chain |-> "scenario"])
        => /\ {x \in store : x.run = i}
                = {PremiumRecord("XYZ", Date(now) + 10, 10, "active", TRUE, i)}
           /\ runRows[i].successful_stocks = 1
           /\ runRows[i].failed_stocks = 0

\* C19: the record of a run whose execution has ended, by finishing the loop
\* or by an exception, is finalized: its status is no longer running and its
\* end_time is set.
C19_RunRecordFinalized ==
    \A i \in EndedRuns :
        /\ runRows[i].status \in {"completed", "failed"}
        /\ runRows[i].end_time # None

----------------------------------------------------------------------------
(* Claims about the expiry marker (specification SpecMarker) *)

\* C20: when the expiry marker runs twice in a row (no other step in between,
\* so the same rows and the same date), the second run returns 0 and leaves
\* the table as it was.
C20_MarkerIdempotent ==
    /\ []((ev.op = "mark_expired" /\ Len(marked) = 2) => marked[2] = 0)
    /\ [][(ev.op = "mark_expired" /\ ev'.op = "mark_expired")
             => (store' = store /\ marked'[2] = 0)]_vars

\* C20 witness: the marker has run twice in a row; the first run marked
\* records, the second none
C20_Witness ==
    /\ ev.op = "mark_expired"
    /\ Len(marked) = 2
    /\ marked[1] >= 1
    /\ marked[2] = 0
    /\ \E x \in store : x.contract_status = "expired" /\ x.days_to_expiry = 1

\* the two rows are the same record: they agree on every field but
\* contract_status
SameRecord(x, y) == [x EXCEPT !.contract_status = "-"] = [y EXCEPT !.contract_status = "-"]

\* C21: in every step (a step of a collection run, a call of _scrape_stock, a
\* run of the marker, a removal from the watchlist, midnight) each premium
\* record of the table is deleted with its stock by the removal, or is still
\* there with every field as it was, or is still there with only
\* contract_status changed, and then from active to expired, by the marker,
\* its expiration_date before today.
C21_RecordImmutable ==
    [][\A x \in store :
          LET after == {y \in store' : SameRecord(x, y)}
          IN  \/ after = {} /\ ev'.op = "remove_stock"
              \/ after = {x}
              \/ /\ after = {[x EXCEPT !.contract_status = "expired"]}
                 /\ x.contract_status = "active"
                 /\ ev'.op = "mark_expired"
                 /\ x.expiration_date < Date(now)]_vars

\* C21 witness: the marker has just marked records and left alone an active
\* record that expires today or later
C21_Witness ==
    /\ ev.op = "mark_expired"
    /\ Len(marked) = 1
    /\ marked[1] >= 1
    /\ \E x \in store : x.contract_status = "active" /\ x.expiration_date >= Date(now)
    /\ \E x \in store : x.contract_status = "expired" /\ x.expiration_date < Date(now)

----------------------------------------------------------------------------
(* Claims about the scheduler configuration (specification SpecConfig) *)

\* the field of the row after a body with this field was stored
Requested(arg, old) == IF arg = None THEN old ELSE The(ParseTime(The(arg)))

\* a body whose interval is out of range, whose timezone is unknown, or that
\* leaves the row with market_hours_start not before market_hours_end
PutRejected(r, c) ==
    \/ ~InRange(r.polling_interval_minutes, 1, 1440)
    \/ (r.timezone # None /\ The(r.timezone) \notin AllTimezones)
    \/ Requested(r.market_hours_start, c.market_hours_start)
          >= Requested(r.market_hours_end, c.market_hours_end)

\* SchedulerService.update_config called directly: a call that raises changes
\* neither the row nor the job, a call that returns has re-armed the job with
\* the interval of the row
UpdateConfigValidates ==
    [][/\ ev'.op = "update_config_error" => cfg' = cfg /\ job' = job
       /\ ev'.op = "update_config" =>
             /\ job'.interval = cfg'.polling_interval_minutes
             /\ job'.next_run_time = Some(now + cfg'.polling_interval_minutes)]_vars

\* C22: an update of the configuration with an interval outside 1..1440, an
\* unknown timezone or a start not before the end changes neither the
\* persisted row nor the interval of the timer; a valid update persists its
\* values and re-arms the timer with the new interval
C22_ValidatedBeforePersisting ==
    [][(/\ ev'.op = "update_scheduler_config"
        /\ hasConfig
        /\ sched.is_initialized
        /\ InRange(response'.request.stock_delay_seconds, 0, 300)
        /\ InRange(response'.request.max_expirations, 1, 100))
       => LET r == response'.request
          IN  IF PutRejected(r, cfg)
              THEN cfg' = cfg /\ job'.interval = job.interval
              ELSE /\ cfg'.polling_interval_minutes =
                         OrElse(r.polling_interval_minutes, cfg.polling_interval_minutes)
                   /\ cfg'.market_hours_start =
                         Requested(r.market_hours_start, cfg.market_hours_start)
                   /\ cfg'.market_hours_end =
                         Requested(r.market_hours_end, cfg.market_hours_end)
                   /\ cfg'.timezone = OrElse(r.timezone, cfg.timezone)
                   /\ r.polling_interval_minutes # None =>
                         /\ job'.interval = The(r.polling_interval_minutes)
                         /\ job'.next_run_time
                               = Some(now + The(r.polling_interval_minutes))]_vars

\* the detail of an answer names the timezone
MentionsTimezone(detail) == \E k \in 1 .. Len(detail) : detail[k] = "Invalid timezone"

\* C23: a PUT whose polling_interval_minutes, stock_delay_seconds or
\* max_expirations is out of range, or whose timezone is invalid, is answered
\* with 400, and the detail of the answer to an invalid timezone mentions the
\* timezone
C23_BadRequestIs400 ==
    LET r == response.request
        invalid_timezone == r.timezone # None /\ The(r.timezone) \notin AllTimezones
    IN  (ev.op = "update_scheduler_config"
         /\ (~SchedulerConfigRequestValid(r) \/ invalid_timezone))
        => /\ response.status = 400
           /\ (SchedulerConfigRequestValid(r) => MentionsTimezone(response.detail))

----------------------------------------------------------------------------
(* Claims about the daily query counter (specification SpecQuota) *)

\* the counter was zeroed past the anchor of the day of t already
ResetPastAnchorToday(q, t) ==
    /\ q.last_reset_date # None
    /\ EstDate(The(q.last_reset_date)) = EstDate(t)
    /\ EstTime(The(q.last_reset_date)) >= reset_time

\* C24: once the counter has a reset date, an evaluation zeroes it only past
\* the anchor (07:30 America/New_York) of the current day and only when it
\* was not zeroed past that anchor before; an evaluation that does not zero it
\* leaves the count, and an increment that does not zero it makes it grow
C24_LazyDailyReset ==
    [][(/\ ev'.op \in {"check_and_reset_daily_counter", "increment_query_count"}
        /\ quota.last_reset_date # None)
       => IF quota'.reset
          THEN /\ EstTime(now) >= reset_time
               /\ ~ResetPastAnchorToday(quota, now)
          ELSE IF ev'.op = "increment_query_count"
               THEN quota'.daily_api_queries > quota.daily_api_queries
               ELSE quota'.daily_api_queries = quota.daily_api_queries]_vars

----------------------------------------------------------------------------
(* Claims about the premium queries (specification SpecQuery) *)

\* the last step was a query for a stock of the stocks table
Answered == ev.op = "query_premium" /\ Upper(queryCall.request.ticker) \in KnownTickers

\* the rows of the instrument, option type, time and duration window
FilteredData == BaseQuery(queryCall.table, queryCall.request, now)
DataStrikes == {r.strike_price : r \in FilteredData}

\* the strikes of the entries of an answer
ResultStrikes(answer) == {answer.results[k].strike_price : k \in 1 .. Len(answer.results)}

\* the strikes of the filtered data within the range of the request
StrikesInRange ==
    LET target == The(queryCall.request.strike_price)
        percent == The(queryCall.request.strike_range_percent)
    IN  {s \in DataStrikes : /\ s * 100 >= target * (100 - percent)
                             /\ s * 100 <= target * (100 + percent)}

\* C25: in percentage_range mode the result holds exactly the strikes of the
\* filtered data within [target * (1 - P/100), target * (1 + P/100)], both
\* bounds included, and no strike without a matching record
C25_RangeStrikes ==
    (Answered /\ queryCall.request.strike_mode = "percentage_range")
    => /\ queryCall.answer.error = "-"
       /\ ResultStrikes(queryCall.answer) = StrikesInRange

\* the underlying price of the most recent row of the filtered data
ReferencePrice ==
    (CHOOSE r \in FilteredData :
        \A o \in FilteredData : o.collection_timestamp <= r.collection_timestamp
    ).stock_price_at_collection

\* the n lowest and the n highest numbers of a set
Lowest(S, n) == {s \in S : Cardinality({x \in S : x < s}) < n}
Highest(S, n) == {s \in S : Cardinality({x \in S : x > s}) < n}
CountOf(arg) == IF arg = None THEN 0 ELSE The(arg)

\* the strikes the nearest mode is to select
NearestStrikes ==
    Lowest({s \in DataStrikes : s > ReferencePrice},
           CountOf(queryCall.request.nearest_count_above))
    \cup Highest({s \in DataStrikes : s < ReferencePrice},
                 CountOf(queryCall.request.nearest_count_below))

\* the strikes _get_nearest_strikes hands to _aggregate_statistics are the
\* ones the nearest mode is to select, in ascending order
NearestSelection ==
    (Answered /\ queryCall.request.strike_mode = "nearest" /\ FilteredData # {})
    => queryCall.answer.strikes = Sorted(NearestStrikes)

\* C26: in nearest mode the query is answered, and the strikes of its result
\* are the N lowest strikes of the filtered data strictly above the reference
\* price and the M highest strictly below it, in ascending order; a strike
\* equal to the reference is never among them
C26_NearestStrikes ==
    (Answered /\ queryCall.request.strike_mode = "nearest" /\ FilteredData # {})
    => /\ queryCall.answer.error = "-"
       /\ ResultStrikes(queryCall.answer) = NearestStrikes
       /\ \A k \in 1 .. Len(queryCall.answer.results) - 1 :
            queryCall.answer.results[k].strike_price
               < queryCall.answer.results[k + 1].strike_price
       /\ ReferencePrice \notin ResultStrikes(queryCall.answer)

\* the rows of the filtered data at the strikes the request asks for
MatchingRecords ==
    LET mode == queryCall.request.strike_mode
        asked == IF mode = "exact" THEN {The(queryCall.request.strike_price)}
                 ELSE IF mode = "percentage_range" THEN StrikesInRange
                 ELSE IF FilteredData = {} THEN {}
                 ELSE NearestStrikes
    IN  {r \in FilteredData : r.strike_price \in asked}

\* C27: a query for a known stock that matches no record is answered, with
\* an empty result list and both totals 0; and the total_data_points of every
\* answer is the number of the records its entries count
C27_EmptyIsNotAnError ==
    Answered
    => /\ MatchingRecords = {} =>
             /\ queryCall.answer.error = "-"
             /\ queryCall.answer.results = <<>>
             /\ queryCall.answer.total_strikes = 0
             /\ queryCall.answer.total_data_points = 0
       /\ queryCall.answer.error = "-" =>
             /\ queryCall.answer.total_strikes = Len(queryCall.answer.results)
             /\ queryCall.answer.total_data_points = Cardinality(MatchingRecords)

\* C27, reached: a query whose range holds the strike of a row of another
\* stock only, over a table with rows of the stock asked for
C27_Witness ==
    /\ Answered
    /\ queryCall.request.strike_mode = "percentage_range"
    /\ FilteredData # {}
    /\ queryCall.answer.strikes # <<>>
    /\ MatchingRecords = {}
    /\ queryCall.answer.error = "-"
    /\ queryCall.answer.results = <<>>
    /\ queryCall.answer.total_data_points = 0

\* the entry of an answer for the records of one strike
EntryOf(e, records) ==
    LET mean(g, field) ==
            LET having == {r \in records : r.greek[g] # None}
            IN  IF having = {} THEN e[field] = None
                ELSE /\ e[field] # None
                     /\ The(e[field])[2] = Cardinality(having)
                     /\ The(e[field])[1]
                           = SumOver([r \in having |-> The(r.greek[g])])
    IN  /\ e.data_points = Cardinality(records)
        /\ \E r \in records : e.min_premium = r.premium
        /\ \A r \in records : e.min_premium <= r.premium
        /\ \E r \in records : e.max_premium = r.premium
        /\ \A r \in records : e.max_premium >= r.premium
        /\ \E r \in records : e.first_seen = r.collection_timestamp
        /\ \A r \in records : e.first_seen <= r.collection_timestamp
        /\ \E r \in records : e.last_seen = r.collection_timestamp
        /\ \A r \in records : e.last_seen >= r.collection_timestamp
        /\ mean("delta", "avg_delta")
        /\ mean("gamma", "avg_gamma")
        /\ mean("theta", "avg_theta")
        /\ mean("vega", "avg_vega")

\* C28: the answer holds one entry for each selected strike that has a
\* record, in ascending order of the strikes, with the count, the least and
\* the greatest premium and the earliest and the latest timestamp of the
\* records of the strike; the mean of a Greek is taken over the records that
\* have a value and is null when none has
C28_StatisticsPerStrike ==
    Answered
    => LET answer == queryCall.answer
       IN  /\ answer.error = "-"
           /\ ResultStrikes(answer) = {r.strike_price : r \in MatchingRecords}
           /\ \A k \in 1 .. Len(answer.results) - 1 :
                 answer.results[k].strike_price < answer.results[k + 1].strike_price
           /\ \A k \in 1 .. Len(answer.results) :
                 EntryOf(answer.results[k],
                         {r \in MatchingRecords :
                             r.strike_price = answer.results[k].strike_price})

----------------------------------------------------------------------------
(* Claims about the Greeks calculator (specification SpecGreeks) *)

\* one of the four numbers of the last call is zero or negative
GreeksInvalid ==
    \E v \in {greeksCall.stock_price, greeksCall.strike_price,
              greeksCall.time_to_expiry_days, greeksCall.implied_volatility} :
        v # None /\ The(v) <= 0

\* C29: a call with a stock price, a strike, a number of days to expiry or an
\* implied volatility that is zero or negative returns the dictionary whose
\* five Greeks are null, and does not raise
C29_InvalidInputsGiveNullGreeks ==
    greeksCall.called /\ GreeksInvalid
    => /\ ~greeksCall.raised
       /\ \A g \in GreeksKeys : greeksCall.greeks[g] = None

\* C29: a call on the expiration day, the other values valid, returned the
\* null result
C29_Witness ==
    /\ greeksCall.called
    /\ greeksCall.stock_price = Some(100)
    /\ greeksCall.strike_price = Some(95)
    /\ greeksCall.time_to_expiry_days = Some(0)
    /\ greeksCall.implied_volatility = Some(25)
    /\ greeksCall.option_type = Some("call")
    /\ ~greeksCall.raised
    /\ greeksCall.greeks = null_greeks

----------------------------------------------------------------------------
(* Claims about the price endpoint (specification SpecCache) *)

\* the cache holds an entry for the ticker that is younger than ten minutes
FreshEntry(ticker) ==
    /\ price_cache[ticker] # None
    /\ now - The(price_cache[ticker]).timestamp < 10

\* the step is a request for the price of the ticker, a stock of the table
PriceRequestFor(ticker) ==
    /\ ev'.op = "get_stock_price"
    /\ priceCall'.ticker = ticker
    /\ priceCall'.status = 200

\* C30: a request for a ticker with a cache entry younger than 10 minutes
\* returns the price of the entry, asks no source and leaves the health of
\* the sources and the cache as they were; a request without such an entry
\* goes through the rotation of the sources, and a live result is stored in
\* the cache under the ticker, the other entries unchanged
C30_ReadThroughCache ==
    [][\A ticker \in Tickers :
         PriceRequestFor(ticker)
         => IF FreshEntry(ticker)
            THEN /\ priceCall'.latest_price = Some(The(price_cache[ticker]).price)
                 /\ priceCall'.calls = <<>>
                 /\ health' = health
                 /\ price_cache' = price_cache
            ELSE /\ priceCall'.calls = Candidates(health, now)
                    \/ /\ priceCall'.result # None
                       /\ \E k \in 1 .. Len(Candidates(health, now)) :
                            priceCall'.calls = SubSeq(Candidates(health, now), 1, k)
                 /\ priceCall'.result # None
                    => /\ price_cache'[ticker] # None
                       /\ The(price_cache'[ticker]).price = The(priceCall'.result).price
                       /\ The(price_cache'[ticker]).source = The(priceCall'.result).source
                       /\ The(price_cache'[ticker]).timestamp = now
                       /\ priceCall'.latest_price = Some(The(priceCall'.result).price)
                       /\ \A other \in Tickers \ {ticker} :
                            price_cache'[other] = price_cache[other]
                 /\ priceCall'.result = None => price_cache' = price_cache]_vars

\* C30: a request was answered from an entry that was five minutes old, while
\* the sources were in cooldown
C30_Witness ==
    /\ priceCall.outcome = "cached"
    /\ priceCall.age = Some(5)
    /\ priceCall.calls = <<>>
    /\ health # InitHealth

\* the step is a request that was answered from the table, or with no price
FallbackAnswer(ticker) ==
    /\ PriceRequestFor(ticker)
    /\ priceCall'.outcome \in {"database", "none"}

\* the price of the most recent record of a ticker in the table
NewestPrice(ticker) ==
    {r.stock_price_at_collection :
        r \in {q \in store : /\ q.ticker = ticker
                             /\ \A o \in store : o.ticker = ticker
                                    => o.collection_timestamp <= q.collection_timestamp}}

\* C31: a request for a known ticker that no live source answers returns the
\* underlying price of the most recently collected record of the ticker, and a
\* null price exactly when the ticker has no record; the answer comes after
\* every source of the rotation returned nothing (all three sources when none
\* is in cooldown), and the cache is left as it was
C31_DatabaseFallback ==
    [][\A ticker \in Tickers :
         /\ FallbackAnswer(ticker)
            => /\ priceCall'.latest_price = NewestPrice(ticker)
               /\ priceCall'.calls = Candidates(health, now)
               /\ \A s \in {"yahoo_finance", "alpha_vantage", "finnhub"} :
                     /\ health.cooldown_until[s] = None
                        => \E k \in 1 .. Len(priceCall'.calls) : priceCall'.calls[k] = s
                     /\ \A k \in 1 .. Len(priceCall'.calls) :
                           priceCall'.calls[k] = s => s \notin priceCall'.answering
               /\ price_cache' = price_cache
         /\ PriceRequestFor(ticker) /\ ~FreshEntry(ticker)
               /\ priceCall'.answering = {}
            => FallbackAnswer(ticker)]_vars

\* C31: with two records of the ticker in the table and a later record of
\* another ticker, a request that no source answered returned the price of
\* the later record of the ticker, after all three sources were asked
C31_Witness ==
    /\ priceCall.outcome = "database"
    /\ priceCall.ticker = "XYZ"
    /\ Len(priceCall.calls) = 3
    /\ Cardinality({r \in store : r.ticker = "XYZ"}) = 2
    /\ priceCall.latest_price = Some(4)
    /\ price_cache["XYZ"] = None

----------------------------------------------------------------------------
(* Claims about the rate-limit calculation (specification SpecRates) *)

\* the value the last calculation used for a parameter of the request
RateInput(arg, stored) == IF arg # None THEN The(arg) ELSE stored

\* the tests' copy of the calculation: the requests of a cycle are the stocks
\* times 1 + max_expirations, the requests of an hour those of a cycle times
\* 60 / interval (in hundredths, rounded), and all are zero without stocks
TestCopyEstimates ==
    rateCall.kind = "test"
    => LET a == rateCall.answer
           n == rateCall.watchlist_size
           interval == The(rateCall.polling_interval_minutes)
           per_cycle == n * (1 + The(rateCall.max_expirations))
       IN  IF n = 0 \/ interval = 0
           THEN a.requests_per_cycle = 0 /\ a.requests_per_hour[1] = 0
           ELSE /\ a.requests_per_cycle = per_cycle
                /\ 2 * (a.requests_per_hour[1] * interval - 6000 * per_cycle) <= interval
                /\ 2 * (6000 * per_cycle - a.requests_per_hour[1] * interval) <= interval

\* C32: the rate-limit calculation answers with the requests of a cycle, the
\* number of active stocks times 1 + max_expirations, and the requests of an
\* hour, those of a cycle times 60 / polling interval; without an active
\* stock the estimates are zero; the hour limit is flagged as exceeded exactly
\* when the estimate of the hour is greater than 360
C32_RateEstimates ==
    rateCall.kind = "endpoint" /\ hasConfig
    => LET a == rateCall.answer
           n == rateCall.watchlist_size
           interval == RateInput(rateCall.polling_interval_minutes,
                                 cfg.polling_interval_minutes)
           max_exp == RateInput(rateCall.max_expirations, cfg.max_expirations)
       IN  /\ a.status = 200
           /\ a.requests_per_cycle = n * (1 + max_exp)
           /\ interval > 0
              => a.requests_per_hour[1] * interval
                    = a.requests_per_cycle * 60 * a.requests_per_hour[2]
           /\ n = 0 => /\ a.requests_per_cycle = 0
                       /\ a.requests_per_minute[1] = 0
                       /\ a.requests_per_hour[1] = 0
                       /\ a.requests_per_day[1] = 0
           /\ ~a.within_hour_limit
              <=> a.requests_per_hour[1] > 360 * a.requests_per_hour[2]

----------------------------------------------------------------------------
(* Claims about the records of a chain (specification SpecChain) *)

\* the value of a cell of a row, absent when the cell holds NaN
Present(row, column) == ~IsNaN(row, column)
Number(row, column) == IF IsNaN(row, column) THEN 0 ELSE row[column]

\* the premium the rule of the claim derives for a row: the last price when
\* present and not zero, else the midpoint when bid and ask are positive,
\* else the one of bid and ask that is not zero (zero when none is)
DerivedPremium(row) ==
    IF Present(row, "lastPrice") /\ row.lastPrice # None /\ The(row.lastPrice) # 0
    THEN <<The(row.lastPrice), 1>>
    ELSE IF Number(row, "bid") > 0 /\ Number(row, "ask") > 0
    THEN <<Number(row, "bid") + Number(row, "ask"), 2>>
    ELSE IF Number(row, "bid") # 0 THEN <<Number(row, "bid"), 1>>
    ELSE <<Number(row, "ask"), 1>>

\* the implied volatility of a row is absent or not positive
NoVolatility(row) ==
    \/ IsNaN(row, "impliedVolatility")
    \/ row.impliedVolatility = None
    \/ The(row.impliedVolatility) <= 0

\* the rows of the last call for which the rule derives a positive premium
RowsWithPremium == SelectSeq(chainCall.rows, LAMBDA row : DerivedPremium(row)[1] > 0)

\* C34: the records of a call are those of the rows with a positive derived
\* premium, in the order of the rows; the premium of a record is the derived
\* premium of its row and is positive; a row without a positive implied
\* volatility has its record, with delta, gamma, theta, vega and rho null
C34_PremiumOfARow ==
    chainCall.called
    => /\ Len(chainCall.records) = Len(RowsWithPremium)
       /\ chainCall.contracts_count = Len(RowsWithPremium)
       /\ \A k \in 1 .. Len(chainCall.records) :
            LET record == chainCall.records[k]
                row == RowsWithPremium[k]
            IN  /\ record.premium[1] * DerivedPremium(row)[2]
                      = DerivedPremium(row)[1] * record.premium[2]
                /\ record.premium[1] > 0 /\ record.premium[2] > 0
                /\ "premium" \notin record.nan
                /\ record.strike_price = row.strike
                /\ record.implied_volatility = row.impliedVolatility
                /\ NoVolatility(row)
                   => \A g \in {"delta", "gamma", "theta", "vega", "rho"} :
                         record.greeks[g] = None

\* the tickers the progress tracker shows, place by place: the current
\* instrument, then the pending, the completed and the failed lists
ProgressPlaces ==
    (IF progress.current_stock = None THEN <<>> ELSE <<The(progress.current_stock)>>)
    \o progress.pending_stocks \o progress.completed_stock_list
    \o progress.failed_stocks

\* C35: while a run executes, the current instrument and the pending,
\* completed and failed lists of the progress tracker partition the run's
\* snapshot (no ticker twice, none missing), completed_stocks is the number
\* of completed plus failed instruments and is at most total_stocks; when no
\* run executes the pending list is empty and there is no current instrument
C35_ProgressConsistent ==
    /\ RunInFlight
       => /\ Range(ProgressPlaces) = runRows[Len(runRows)].snapshot
          /\ Len(ProgressPlaces) = Cardinality(runRows[Len(runRows)].snapshot)
          /\ progress.completed_stocks
                = Len(progress.completed_stock_list) + Len(progress.failed_stocks)
          /\ progress.completed_stocks <= progress.total_stocks
    /\ ~RunInFlight
       => /\ progress.pending_stocks = <<>>
          /\ progress.current_stock = None

\* C37: whenever a collection run started by the job wrapper executes, the
\* persisted scheduler_status is running; pause, resume and update_config do
\* not replace the status of a run in flight
C37_RunningStatusDuringRun ==
    (hasConfig /\ ScrapingCount > 0) => cfg.scheduler_status = "running"

\* the scraper job is paused in the timer
JobPausedInTimer == sched.is_initialized /\ job.exists /\ job.next_run_time = None

\* C38: whenever the scraper job is paused in the timer the persisted
\* scheduler_status is paused; a run that completes or fails after pause()
\* does not overwrite paused with idle or error
C38_PausedJobHasPausedStatus ==
    (hasConfig /\ JobPausedInTimer) => cfg.scheduler_status = "paused"

\* C39: in every persisted schedule configuration market_hours_start is
\* strictly before market_hours_end, after any sequence of updates through
\* SchedulerService.update_config or through the config endpoint
C39_MarketHoursOrdered ==
    hasConfig => cfg.market_hours_start < cfg.market_hours_end

\* a success of provider s was recorded in the step, by record_success itself
\* or by the router after a fetch that gave a price
SuccessRecorded(s) ==
    ev'.src = s /\ ev'.op \in {"record_success", "get_live_price"}

\* C40: a provider has a cooldown entry only if its failure_count is at least
\* 1, and failure_count is never negative; failure_count changes only by +1 on
\* a recorded failure or to 0 on a recorded success; a step that deletes an
\* expired cooldown entry leaves failure_count as it was
C40_FailureCountAndCooldown ==
    /\ [](\A s \in PriceSource :
            /\ health.failure_count[s] >= 0
            /\ health.cooldown_until[s] # None => health.failure_count[s] >= 1)
    /\ [][\A s \in PriceSource :
            /\ health'.failure_count[s] # health.failure_count[s]
               => \/ /\ ev'.op = "record_failure" /\ ev'.src = s
                     /\ health'.failure_count[s] = health.failure_count[s] + 1
                  \/ /\ SuccessRecorded(s)
                     /\ health'.failure_count[s] = 0
            /\ (/\ health.cooldown_until[s] # None
                /\ health'.cooldown_until[s] = None
                /\ ~SuccessRecorded(s))
               => /\ The(health.cooldown_until[s]) <= now
                  /\ health'.failure_count[s] = health.failure_count[s]]_vars

\* C40: the cooldown of Yahoo Finance after one failure expired, a request for
\* a price deleted the entry, and the count of Yahoo Finance is still 1
C40_Witness ==
    /\ ev.op = "get_live_price"
    /\ ev.src # "yahoo_finance"
    /\ last.before.cooldown_until["yahoo_finance"] # None
    /\ last.before.failure_count["yahoo_finance"] = 1
    /\ health.cooldown_until["yahoo_finance"] = None
    /\ health.failure_count["yahoo_finance"] = 1

====
